---- MODULE Spec2Model ----
(***************************************************************************)
(* Model of the reactive core of htmp.js: the proxy layer (reactive), the  *)
(* dependency store (track / trigger), the scheduler (queueJob) and the    *)
(* computation runtime (effect / cleanupEffect).                           *)
(*                                                                         *)
(* JavaScript values are strings: the primitives "0" and "1", "null",      *)
(* "undefined", "fn" (a function value), the raw objects "S", "N", "L"     *)
(* and the proxies "p1", "p2", ...  User code (the host script and the     *)
(* bodies of the effects) is an input: every step it can take through the  *)
(* library is an action.                                                   *)
(*                                                                         *)
(* The template engine (html, render, TemplateInstance, TemplatePart) is   *)
(* modelled over a document of numbered nodes; its specification is        *)
(* RenderSpec.  Spec leaves the document empty, RenderSpec leaves the      *)
(* reactive state empty.                                                   *)
(***************************************************************************)
EXTENDS Integers, Sequences, FiniteSets, TLC

\* ---------------------------------------------------------------- bounds
MaxLen == 2        \* longest array the user code builds
MaxOps == 4        \* library calls the user code makes after Init
ArrayOps == MaxOps - 2   \* the same, for the program whose state is an array

\* ---------------------------------------------------------------- values
Null == "null"
Undefined == "undefined"
Fn == "fn"
Prim == {"0", "1"}
RecObj == {"S", "N"}
ArrObj == {"L"}
RawObj == RecObj \cup ArrObj
ProxyIds == <<"p1", "p2", "p3", "p4", "p5", "p6">>
ProxyId == {ProxyIds[i] : i \in 1..Len(ProxyIds)}
Effect == {"e1", "e2"}
EffectIds == <<"e1", "e2">>
NumStr == <<"0", "1", "2", "3", "4">>
arrayMethods == {"push", "pop", "shift", "unshift", "splice", "sort", "reverse"}
ARRAY == "__array__"

Index(n) == {NumStr[i] : i \in 1..n}
IndexOf(k) == CHOOSE i \in 0..(Len(NumStr) - 1) : NumStr[i + 1] = k
ProxyIndex(p) == CHOOSE i \in 1..Len(ProxyIds) : ProxyIds[i] = p

\* typeof value === 'object' && value !== null
IsObject(v) == v \in RawObj \cup ProxyId

RECURSIVE SeqToSet(_)
SeqToSet(s) == IF s = <<>> THEN {} ELSE {Head(s)} \cup SeqToSet(Tail(s))

RECURSIVE Without(_, _)
Without(s, x) ==
    IF s = <<>> THEN <<>>
    ELSE IF Head(s) = x THEN Without(Tail(s), x)
    ELSE <<Head(s)>> \o Without(Tail(s), x)

\* Set.prototype.add on an insertion-ordered set
SetAdd(s, x) == IF x \in SeqToSet(s) THEN s ELSE Append(s, x)

\* Set.prototype.delete
SetDelete(s, x) == Without(s, x)

VARIABLES
    objs,           \* the raw objects the program allocated
    rec,            \* raw record objects: rec[o][k]
    list,           \* the elements of the raw array L
    reactiveMap,    \* raw object -> its proxy (Null: none)
    proxies,        \* every Proxy constructed so far: proxy id -> its target
    parentMap,      \* raw object -> <<parentTarget, parentKey>> (<<>>: none)
    targetMap,      \* target -> (key -> insertion-ordered set of effects)
    effDeps,        \* effectFn.deps: the dependency sets the effect is in
    created,        \* the effects constructed so far
    currentEffect,
    updateQueue,
    isFlushPending,
    microtasks,     \* flush callbacks queued with Promise.resolve().then
    ctx,            \* "host": host code runs; "flush": a flush callback runs; "idle"
    stack,          \* the effect executions in progress, innermost last
    jobs,           \* the snapshot the running flush iterates
    jobIdx,
    fuel,           \* library calls the user code may still make
    last,           \* the library call the last step made, and what it returned
    hist            \* bookkeeping of the current cycle, for the properties

coreVars == <<objs, rec, list, reactiveMap, proxies, parentMap, targetMap, effDeps,
              created, currentEffect, updateQueue, isFlushPending, microtasks, ctx,
              stack, jobs, jobIdx, fuel, last, hist>>

VARIABLES
    nodes,          \* the DOM nodes created so far: node id -> node
    instances,      \* the TemplateInstance objects: id -> instance (with its part)
    templateCache,  \* strings -> Template (NoTemplate: none)
    built,          \* strings -> number of Template objects constructed for it
    chunkJobs,      \* the step callbacks waiting for an idle period, oldest first
    nextToken,      \* the chunk tokens (Symbols) made so far
    renders,        \* calls of render the page script may still make
    lastRender      \* the last call or callback, with the state it started from

VARIABLES
    slotPage,       \* elements with attribute and event slots, and their parts
    slotOps,        \* updates of those slots the page may still make
    lastSlot        \* the last update of a slot, with the state it started from

slotVars == <<slotPage, slotOps, lastSlot>>

VARIABLES
    comp,           \* one component instance and the context of useState
    compOps,        \* calls the page may still make on the component
    lastComp        \* the last such call, with the state it started from

compVars == <<comp, compOps, lastComp>>

renderVars == <<nodes, instances, templateCache, built, chunkJobs, nextToken, renders,
                lastRender, slotVars, compVars>>

vars == <<coreVars, renderVars>>

\* ------------------------------------------------ the template engine
\* Thresholds of the list paths (htmp.js 257-259), scaled down with their
\* order kept: FAST_LIST_THRESHOLD < CHUNK_THRESHOLD, CHUNK_SIZE < CHUNK_THRESHOLD.
\* The source has 50000, 100000 and 5000.
FAST_LIST_THRESHOLD == 2
CHUNK_THRESHOLD == 3
CHUNK_SIZE == 2
\* longest list a page renders
MaxList == CHUNK_THRESHOLD

\* The html`...` call sites of the page, each the identity of one
\* literal-segment array (strings).  Every one is a single element around one
\* content slot: ROOT <div>${}</div>, ALT <section class="x">${}</section>,
\* LI <li>${}</li>, PI <p>${}</p>, and WLI, the same as LI written on a line
\* of its own between the backquotes, as the README writes its list items:
\* a line break, <li>${}</li>, a line break.  plain: the trimmed segments are
\* <tag> and </tag>; pad: the element has white space before and after it.
Strings == {"ROOT", "ALT", "LI", "PI", "WLI"}
Site(strings) ==
    CASE strings = "ROOT" -> [tag |-> "div", plain |-> TRUE, pad |-> FALSE]
      [] strings = "ALT" -> [tag |-> "section", plain |-> FALSE, pad |-> FALSE]
      [] strings = "LI" -> [tag |-> "li", plain |-> TRUE, pad |-> FALSE]
      [] strings = "PI" -> [tag |-> "p", plain |-> TRUE, pad |-> FALSE]
      [] strings = "WLI" -> [tag |-> "li", plain |-> TRUE, pad |-> TRUE]

\* JavaScript values handed to the engine: t is the kind, s the string form
\* (of a TemplateResult: its strings), vs the elements or the values.  An
\* array or a template result of the page is one object per content.
Val(t, s, vs) == [t |-> t, s |-> s, vs |-> vs]
UndefinedV == Val("undefined", "", <<>>)
NaN == Val("number", "NaN", <<>>)
Text(x) == Val("string", x, <<>>)
TemplateResult(strings, values) == Val("TemplateResult", strings, values)
Arr(items) == Val("Array", "", items)
NoSource == Val("none", "", <<>>)
\* the one array object the page keeps and mutates in place (list().push(4)),
\* holding items at the time of the call
Mut(items) == Val("Array", "M", items)
Markup == {"<b>a</b>"}

\* a === b
StrictEq(a, b) == a = b /\ a # NaN

\* String(v == null ? '' : v)
ToText(v) == IF v.t = "undefined" THEN "" ELSE v.s

\* escapeHtml (htmp.js 261-268)
escapeHtml(x) == IF x \in Markup THEN "&lt;b&gt;a&lt;/b&gt;" ELSE x

\* isSimpleWrapperTemplate (htmp.js 270-279): two segments, <tag> and </tag>
isSimpleWrapperTemplate(result) == Site(result.s).plain

\* _isHTMLString (htmp.js 431-458): /<[^>]+>/ matches
isHTMLString(v) == v.t = "string" /\ v.s \in Markup

\* _arraysEqual (htmp.js 370-391)
RECURSIVE arraysEqual(_, _)
arraysEqual(a, b) ==
    /\ Len(a) = Len(b)
    /\ \A i \in 1..Len(a) :
          IF a[i].t = "TemplateResult" /\ b[i].t = "TemplateResult"
          THEN a[i].s = b[i].s /\ arraysEqual(a[i].vs, b[i].vs)
          ELSE \/ StrictEq(a[i], b[i])
               \/ a[i].t = "Array" /\ b[i].t = "Array" /\ arraysEqual(a[i].vs, b[i].vs)

\* _itemsEqual (htmp.js 685-701); the cached item is the snapshot
\* {strings, values} of a template result
itemsEqual(item1, item2) ==
    \/ StrictEq(item1, item2)
    \/ /\ item1.t = "TemplateResult"
       /\ item2.t = "TemplateResult"
       /\ item1.s = item2.s
       /\ arraysEqual(item1.vs, item2.vs)

\* A DOM node: kids are its childNodes, inst its _templateInstance (0: none),
\* token its _chunkToken (0: none).  The comment that marks a slot in the
\* cloned skeleton is left out: nothing reads or moves it.
Node(tag, text) == [tag |-> tag, text |-> text, kids |-> <<>>, inst |-> 0, token |-> 0]

\* new TemplatePart(node, 'node') (htmp.js 338-342); commits counts its commits
TemplatePart(node) ==
    [node |-> node, value |-> UndefinedV, cached |-> <<>>, source |-> NoSource, commits |-> 0]

NoTemplate == [strings |-> "none", element |-> [tag |-> "", plain |-> FALSE, pad |-> FALSE]]
\* new Template(strings) (htmp.js 913-943): element is the parsed skeleton
Template(strings) == [strings |-> strings, element |-> Site(strings)]

\* the first container of the page
Container == 1

\* the engine's state before the page rendered anything
PageBlank ==
    [nodes |-> <<Node("div", "")>>, instances |-> <<>>,
     templateCache |-> [s \in Strings |-> NoTemplate], built |-> [s \in Strings |-> 0],
     chunkJobs |-> <<>>, nextToken |-> 0, commits |-> 0, threw |-> FALSE]

\* the state the engine's functions transform; commits counts the part
\* commits of the call in progress, threw tells that it threw
Page ==
    [nodes |-> nodes, instances |-> instances, templateCache |-> templateCache,
     built |-> built, chunkJobs |-> chunkJobs, nextToken |-> nextToken, commits |-> 0,
     threw |-> FALSE]

PageCommit(st) ==
    /\ nodes' = st.nodes
    /\ instances' = st.instances
    /\ templateCache' = st.templateCache
    /\ built' = st.built
    /\ chunkJobs' = st.chunkJobs
    /\ nextToken' = st.nextToken

PageCommitted(st) ==
    /\ nodes = st.nodes
    /\ instances = st.instances
    /\ templateCache = st.templateCache
    /\ built = st.built
    /\ chunkJobs = st.chunkJobs
    /\ nextToken = st.nextToken

\* document.createElement / createTextNode: the new node is the last one
Alloc(st, tag, text) == [st EXCEPT !.nodes = Append(@, Node(tag, text))]
NewId(st) == Len(st.nodes)

\* the character data the HTML parser makes of a text in markup: the
\* character references of escapeHtml are decoded
parseText(x) == IF x = escapeHtml("<b>a</b>") THEN "<b>a</b>" ELSE x

\* an element parsed from markup: <tag>text</tag>
MarkupElement(st, tag, text) ==
    LET s1 == Alloc(st, "#text", parseText(text))
        s2 == Alloc(s1, tag, "")
    IN [s2 EXCEPT !.nodes[NewId(s2)].kids = <<NewId(s1)>>]

\* node.innerHTML = a markup string of the page
SetInnerHTML(st, n, markup) ==
    LET s1 == MarkupElement(st, "b", "a")
    IN [s1 EXCEPT !.nodes[n].kids = <<NewId(s1)>>]

\* node.textContent = x
SetTextContent(st, n, x) ==
    IF st.nodes[n].tag = "#text" THEN [st EXCEPT !.nodes[n].text = x]
    ELSE IF x = "" THEN [st EXCEPT !.nodes[n].kids = <<>>]
    ELSE LET s1 == Alloc(st, "#text", x)
         IN [s1 EXCEPT !.nodes[n].kids = <<NewId(s1)>>]

ParentOf(st, n) == CHOOSE p \in 1..Len(st.nodes) : \E i \in 1..Len(st.nodes[p].kids) : st.nodes[p].kids[i] = n

\* parent.replaceChild(fragment, parent.childNodes[i]); without that child,
\* parent.appendChild(fragment)
PutAt(st, parent, i, fragment) ==
    LET kids == st.nodes[parent].kids
    IN IF i <= Len(kids)
       THEN [st EXCEPT !.nodes[parent].kids =
                          SubSeq(kids, 1, i - 1) \o fragment \o SubSeq(kids, i + 1, Len(kids))]
       ELSE [st EXCEPT !.nodes[parent].kids = kids \o fragment]

\* getTemplate without the cache
getTemplateUncached(st, strings) ==
    [st EXCEPT !.templateCache[strings] = Template(strings), !.built[strings] = @ + 1]

\* getTemplate (htmp.js 945-954)
getTemplate(st, strings) ==
    IF st.templateCache[strings] # NoTemplate THEN st
    ELSE [st EXCEPT !.templateCache[strings] = Template(strings), !.built[strings] = @ + 1]

\* new TemplateInstance(template, container) (htmp.js 847-900): the skeleton
\* is cloned into the fragment, white space text nodes included, and the slot
\* gets an empty text node and its part
TemplateInstance(st, template, container) ==
    LET s1 == Alloc(st, "#text", "")
        s2 == Alloc(s1, template.element.tag, "")
        s3 == [s2 EXCEPT !.nodes[NewId(s2)].kids = <<NewId(s1)>>]
        s4 == IF template.element.pad THEN Alloc(Alloc(s3, "#text", " "), "#text", " ")
              ELSE s3
    IN [s4 EXCEPT !.instances = Append(@, [strings |-> template.strings,
                                           container |-> container,
                                           fragment |-> IF template.element.pad
                                                        THEN <<NewId(s4) - 1, NewId(s2), NewId(s4)>>
                                                        ELSE <<NewId(s2)>>,
                                           part |-> TemplatePart(NewId(s1))])]

\* mount leaving the fragment out of the container
mountDetached(st, ii) == st

\* instance.mount() (htmp.js 908-910)
mount(st, ii) ==
    [st EXCEPT !.nodes[st.instances[ii].container].kids = @ \o st.instances[ii].fragment,
               !.instances[ii].fragment = <<>>]

\* the items l[from..Len(l)] serialized and parsed into elements appended to n
RECURSIVE AppendMarkupItems(_, _, _, _, _)
AppendMarkupItems(st, n, tag, l, from) ==
    IF from > Len(l) THEN st
    ELSE LET s1 == MarkupElement(st, tag, escapeHtml(ToText(l[from].vs[1])))
         IN AppendMarkupItems([s1 EXCEPT !.nodes[n].kids = Append(@, NewId(s1))],
                              n, tag, l, from + 1)

\* this.node.innerHTML = builder.join(''), then the cache (htmp.js 496-503)
BulkReplace(st, ii, value) ==
    LET n == st.instances[ii].part.node
        s1 == AppendMarkupItems([st EXCEPT !.nodes[n].kids = <<>>], n,
                                Site(value.vs[1].s).tag, value.vs, 1)
    IN [s1 EXCEPT !.instances[ii].part.cached = value.vs,
                  !.instances[ii].part.source = value]

\* scheduleChunkedHTMLAppend (htmp.js 281-317) up to the first callback
scheduleChunkedHTMLAppend(st, ii, value) ==
    LET n == st.instances[ii].part.node
        token == st.nextToken + 1
    IN [st EXCEPT !.nextToken = token,
                  !.nodes[n].token = token,
                  !.nodes[n].kids = <<>>,
                  !.chunkJobs = Append(@, [self |-> ii, node |-> n, token |-> token, i |-> 0,
                                           newArray |-> value,
                                           commits |-> st.instances[ii].part.commits])]

\* step writing the cache after every slice instead of after the last one
stepCachingEachSlice(st, count) ==
    LET job == Head(st.chunkJobs)
        s0 == [st EXCEPT !.chunkJobs = Tail(@)]
        l == job.newArray.vs
        upto == IF job.i + count < Len(l) THEN job.i + count ELSE Len(l)
    IN IF s0.nodes[job.node].token # job.token THEN s0
       ELSE LET s1 == AppendMarkupItems(s0, job.node, Site(l[1].s).tag,
                                        SubSeq(l, 1, upto), job.i + 1)
                s2 == [s1 EXCEPT !.instances[job.self].part.cached = l,
                                 !.instances[job.self].part.source = job.newArray]
            IN IF upto < Len(l)
               THEN [s2 EXCEPT !.chunkJobs = Append(@, [job EXCEPT !.i = upto])]
               ELSE s2

\* step (htmp.js 288-310) of the oldest waiting callback, the idle period
\* letting it take count items
step(st, count) ==
    LET job == Head(st.chunkJobs)
        s0 == [st EXCEPT !.chunkJobs = Tail(@)]
        l == job.newArray.vs
        upto == IF job.i + count < Len(l) THEN job.i + count ELSE Len(l)
    IN IF s0.nodes[job.node].token # job.token THEN s0
       ELSE LET s1 == AppendMarkupItems(s0, job.node, Site(l[1].s).tag,
                                        SubSeq(l, 1, upto), job.i + 1)
            IN IF upto < Len(l)
               THEN [s1 EXCEPT !.chunkJobs = Append(@, [job EXCEPT !.i = upto])]
               ELSE [s1 EXCEPT !.instances[job.self].part.cached = l,
                               !.instances[job.self].part.source = job.newArray]

Max(a, b) == IF a > b THEN a ELSE b
Min(a, b) == IF a < b THEN a ELSE b

\* the indices at which the new list differs from the cached one
ChangedItems(newArray, oldArray) ==
    {i \in 1..Len(newArray) : ~itemsEqual(newArray[i], oldArray[i])}

\* the list takes a bulk path (htmp.js 473-549): "chunk", "bulk" or "diff"
ListPath(newArray, oldArray) ==
    IF /\ Len(newArray) >= FAST_LIST_THRESHOLD
       /\ newArray[1].t = "TemplateResult"
       /\ isSimpleWrapperTemplate(newArray[1])
       /\ \A i \in 2..Len(newArray) :
              /\ newArray[i].t = "TemplateResult"
              /\ newArray[i].s = newArray[1].s
              /\ Len(newArray[i].vs) = 1
    THEN IF Len(oldArray) = 0
         THEN IF Len(newArray) >= CHUNK_THRESHOLD THEN "chunk" ELSE "bulk"
         ELSE IF Len(newArray) = Len(oldArray)
              THEN IF Cardinality(ChangedItems(newArray, oldArray))
                          <= Max(10, Len(newArray) \div 10)
                   THEN "diff" ELSE "bulk"
              ELSE "bulk"
    ELSE "diff"

RECURSIVE renderUnchecked(_, _, _), render(_, _, _), update(_, _, _), setValue(_, _, _)
RECURSIVE commit(_, _), updateArray(_, _, _), UpdateItems(_, _, _, _, _), AppendItems(_, _, _, _)
RECURSIVE updateArrayPerIndex(_, _, _)

\* render(newItem, tempContainer) and the move of what it rendered to
\* position i of the part's node (htmp.js 575-598, 642-647)
RenderItemAt(st, n, i, newItem) ==
    LET s1 == Alloc(st, "div", "")
        s2 == render(s1, newItem, NewId(s1))
        fragment == s2.nodes[NewId(s1)].kids
    IN PutAt([s2 EXCEPT !.nodes[NewId(s1)].kids = <<>>], n, i, fragment)

\* 1. the loop over the common indices, from index i (htmp.js 555-633)
UpdateItems(st, ii, i, newArray, oldArray) ==
    IF i > Min(Len(newArray), Len(oldArray)) THEN st
    ELSE
    LET n == st.instances[ii].part.node
        kids == st.nodes[n].kids
        has == i <= Len(kids)
        newItem == newArray[i]
        done ==
            IF itemsEqual(newItem, oldArray[i]) THEN st
            ELSE IF newItem.t = "TemplateResult"
            THEN IF has /\ st.nodes[kids[i]].inst # 0
                 THEN IF st.instances[st.nodes[kids[i]].inst].strings = newItem.s
                      THEN update(st, st.nodes[kids[i]].inst, newItem.vs)
                      ELSE RenderItemAt(st, n, i, newItem)
                 ELSE RenderItemAt(st, n, i, newItem)
            ELSE IF isHTMLString(newItem)
            THEN LET s1 == MarkupElement(st, "b", "a")
                 IN PutAt(s1, n, i, <<NewId(s1)>>)
            ELSE IF has /\ st.nodes[kids[i]].tag = "#text"
                 THEN [st EXCEPT !.nodes[kids[i]].text = ToText(newItem)]
                 ELSE LET s1 == Alloc(st, "#text", ToText(newItem))
                      IN PutAt(s1, n, i, <<NewId(s1)>>)
    IN UpdateItems(done, ii, i + 1, newArray, oldArray)

\* 2. the surplus items, from index i (htmp.js 636-662)
AppendItems(st, ii, i, newArray) ==
    IF i > Len(newArray) THEN st
    ELSE
    LET n == st.instances[ii].part.node
        newItem == newArray[i]
        at == Len(st.nodes[n].kids) + 1
        done ==
            IF newItem.t = "TemplateResult" THEN RenderItemAt(st, n, at, newItem)
            ELSE IF isHTMLString(newItem)
            THEN LET s1 == MarkupElement(st, "b", "a")
                 IN PutAt(s1, n, at, <<NewId(s1)>>)
            ELSE IF newItem.t # "undefined"
            THEN LET s1 == Alloc(st, "#text", ToText(newItem))
                 IN PutAt(s1, n, at, <<NewId(s1)>>)
            ELSE st
    IN AppendItems(done, ii, i + 1, newArray)

\* the removal loop left out: no child is removed
RemoveNoItems(st, n, newLength) == st

\* 3. the children past the new length are removed (htmp.js 665-675)
RemoveItems(st, n, newLength) ==
    LET kids == st.nodes[n].kids
        all == st.nodes
    IN [st EXCEPT !.nodes = SubSeq([k \in 1..Len(all) |->
                                       IF \E i \in (newLength + 1)..Len(kids) : kids[i] = k
                                       THEN [all[k] EXCEPT !.inst = 0]
                                       ELSE IF k = n
                                       THEN [all[k] EXCEPT !.kids = SubSeq(kids, 1, Min(newLength, Len(kids)))]
                                       ELSE all[k]],
                                   1, Len(all))]

\* the per-index algorithm of _updateArray and the cache it leaves
\* (htmp.js 551-678)
updateArrayPerIndex(st, ii, value) ==
    LET part == st.instances[ii].part
        newArray == value.vs
        oldArray == part.cached
        s1 == UpdateItems(st, ii, 1, newArray, oldArray)
        s2 == IF Len(newArray) > Len(oldArray)
              THEN AppendItems(s1, ii, Len(oldArray) + 1, newArray)
              ELSE s1
        s3 == IF Len(newArray) < Len(oldArray)
              THEN RemoveItems(s2, part.node, Len(newArray))
              ELSE s2
    IN [s3 EXCEPT !.instances[ii].part.cached = newArray,
                  !.instances[ii].part.source = value]

\* _updateArray (htmp.js 463-680)
updateArray(st, ii, value) ==
    LET part == st.instances[ii].part
        path == ListPath(value.vs, part.cached)
    IN IF part.source = value THEN st
       ELSE IF path = "chunk" THEN scheduleChunkedHTMLAppend(st, ii, value)
       ELSE IF path = "bulk" THEN BulkReplace(st, ii, value)
       ELSE updateArrayPerIndex(st, ii, value)

\* commit (htmp.js 710-768) of a content slot
commit(st, ii) ==
    LET value == st.instances[ii].part.value
        needsContainer == value.t \in {"TemplateResult", "Array"} \/ isHTMLString(value)
        old == st.instances[ii].part.node
        s0 == [st EXCEPT !.commits = @ + 1, !.instances[ii].part.commits = @ + 1]
        s1 == IF needsContainer /\ s0.nodes[old].tag = "#text"
              THEN LET a == Alloc(s0, "span", "")
                       p == ParentOf(a, old)
                   IN [a EXCEPT !.nodes[p].kids = SubSeq([i \in 1..Len(@) |->
                                                             IF @[i] = old THEN NewId(a) ELSE @[i]],
                                                         1, Len(@)),
                                !.instances[ii].part.node = NewId(a)]
              ELSE s0
        n == s1.instances[ii].part.node
    IN IF value.t = "TemplateResult"
       THEN IF s1.nodes[n].inst # 0 /\ s1.instances[s1.nodes[n].inst].strings = value.s
            THEN update(s1, s1.nodes[n].inst, value.vs)
            ELSE render([s1 EXCEPT !.nodes[n].kids = <<>>, !.nodes[n].inst = 0], value, n)
       ELSE IF value.t = "Array" THEN updateArray(s1, ii, value)
       ELSE LET s2 == IF needsContainer THEN SetInnerHTML(s1, n, value.s)
                      ELSE SetTextContent(s1, n, ToText(value))
            IN [s2 EXCEPT !.nodes[n].inst = 0]

\* setValue (htmp.js 344-368)
setValue(st, ii, value) ==
    LET part == st.instances[ii].part
    IN IF StrictEq(part.value, value) THEN st
       ELSE IF /\ part.value.t = "Array"
               /\ value.t = "Array"
               /\ arraysEqual(part.value.vs, value.vs)
       THEN st
       ELSE IF /\ part.value.t = "TemplateResult"
               /\ value.t = "TemplateResult"
               /\ part.value.s = value.s
               /\ arraysEqual(part.value.vs, value.vs)
       THEN st
       ELSE commit([st EXCEPT !.instances[ii].part.value = value], ii)

\* instance.update(values) (htmp.js 902-906): the templates have one part
update(st, ii, values) == setValue(st, ii, values[1])

\* render without its check of the argument: reading result.strings of a
\* value that has none, it clears the container and fails in new Template
renderUnchecked(st, result, container) ==
    IF result.t # "TemplateResult"
    THEN [st EXCEPT !.nodes[container].kids = <<>>, !.threw = TRUE]
    ELSE
    LET cur == st.nodes[container].inst
    IN IF cur = 0 \/ st.instances[cur].strings # result.s
       THEN LET s1 == getTemplate([st EXCEPT !.nodes[container].kids = <<>>], result.s)
                s2 == TemplateInstance(s1, s1.templateCache[result.s], container)
                ii == Len(s2.instances)
            IN mount(update([s2 EXCEPT !.nodes[container].inst = ii], ii, result.vs), ii)
       ELSE update(st, cur, result.vs)

\* render (htmp.js 973-989)
render(st, result, container) ==
    IF result.t # "TemplateResult" THEN [st EXCEPT !.threw = TRUE]
    ELSE
    LET cur == st.nodes[container].inst
    IN IF cur = 0 \/ st.instances[cur].strings # result.s
       THEN LET s1 == getTemplate([st EXCEPT !.nodes[container].kids = <<>>], result.s)
                s2 == TemplateInstance(s1, s1.templateCache[result.s], container)
                ii == Len(s2.instances)
            IN mount(update([s2 EXCEPT !.nodes[container].inst = ii], ii, result.vs), ii)
       ELSE update(st, cur, result.vs)

\* a reference to the array object the page mutated shows its new elements
Aliased(v, items) == IF v.t = "Array" /\ v.s = "M" THEN Mut(items) ELSE v

\* The page mutates its array in place: this.value and _cachedArraySource of
\* a part, and newArray of a waiting step, are references to the object
\* (htmp.js 366, 678, 281), _cachedArray is a copy (htmp.js 677).
MutateInPlace(st, items) ==
    LET is == st.instances
        js == st.chunkJobs
    IN [st EXCEPT
           !.instances = SubSeq([i \in 1..Len(is) |->
                                    [is[i] EXCEPT !.part.value = Aliased(is[i].part.value, items),
                                                  !.part.source = Aliased(is[i].part.source, items)]],
                                1, Len(is)),
           !.chunkJobs = SubSeq([j \in 1..Len(js) |->
                                    [js[j] EXCEPT !.newArray = Aliased(js[j].newArray, items)]],
                                1, Len(js))]

\* ------------------------------------------ attribute and event slots
\* further values handed to a slot
TrueV == Val("boolean", "true", <<>>)
FalseV == Val("boolean", "false", <<>>)
NullV == Val("null", "null", <<>>)
Zero == Val("number", "0", <<>>)
Func(x) == Val("function", x, <<>>)
\* the handlers of the page
Funcs == {Func("f"), Func("g")}
\* no listener kept by the part: this._listener is not set or null
NoListener == Val("none", "", <<>>)

\* The elements that carry the slots: <div title=${} onclick=${}> and
\* <x-item title=${} onclick=${}>
Elements == {"DIV", "X-ITEM"}
SlotNames == {"title", "onclick"}
\* this.node.tagName && this.node.tagName.includes('-') (htmp.js 814)
isCustomElement(el) == el = "X-ITEM"
\* this.name.toLowerCase().startsWith('on') (htmp.js 769)
isEventName(name) == name = "onclick"

\* an attribute of an element: <<>> when absent, else <<its value>>
NoAttr == <<>>
Attr(v) == <<v>>
\* String(value) of the values above
String(v) == v.s
\* `__prop_${propIdCounter++}` (htmp.js 23)
PropId(n) == "__prop_" \o ToString(n)

\* new TemplatePart(node, attr.name) (htmp.js 338-342, 877)
AttributePart == [value |-> UndefinedV, listener |-> NoListener]

\* The elements after new TemplateInstance: the attributes with a marker
\* are removed (htmp.js 879), no listener, no _propsStore; commits counts
\* the commits of the call in progress.
SlotBlank ==
    [attrs |-> [el \in Elements |-> [n \in SlotNames |-> NoAttr]],
     listeners |-> [el \in Elements |-> {}],
     propsStore |-> [el \in Elements |-> {}],
     propIdCounter |-> 0,
     parts |-> [el \in Elements |-> [n \in SlotNames |-> AttributePart]],
     commits |-> 0]

\* createPropFunction and registerProp (htmp.js 22-55): the function kept
\* under the new id is the value if it is a function, else a function
\* around the value (wrapped)
registerProp(st, el, value) ==
    [st EXCEPT !.propsStore[el] = @ \cup {[propId |-> PropId(st.propIdCounter),
                                          wrapped |-> value.t # "function",
                                          value |-> value]},
               !.propIdCounter = @ + 1]

\* commit, event branch, keeping the listener it installed before
commitEventKeeping(st, el, name) ==
    LET value == st.parts[el][name].value
    IN IF value.t = "function"
       THEN [st EXCEPT !.parts[el][name].listener = value,
                       !.listeners[el] = @ \cup {value}]
       ELSE st

\* commit, event branch (htmp.js 769-780)
commitEvent(st, el, name) ==
    LET value == st.parts[el][name].value
        listener == st.parts[el][name].listener
        s1 == IF listener # NoListener
              THEN [st EXCEPT !.listeners[el] = @ \ {listener},
                              !.parts[el][name].listener = NoListener]
              ELSE st
    IN IF value.t = "function"
       THEN [s1 EXCEPT !.parts[el][name].listener = value,
                       !.listeners[el] = @ \cup {value}]
       ELSE s1

\* commit, plain attribute branch, without its test for custom elements
commitAttributeNative(st, el, name) ==
    LET value == st.parts[el][name].value
    IN IF value.t \in {"null", "undefined"} \/ value = FalseV
       THEN [st EXCEPT !.attrs[el][name] = NoAttr]
       ELSE IF value = TrueV THEN [st EXCEPT !.attrs[el][name] = Attr("")]
       ELSE [st EXCEPT !.attrs[el][name] = Attr(String(value))]

\* commit, plain attribute branch (htmp.js 811-836)
commitAttribute(st, el, name) ==
    LET value == st.parts[el][name].value
    IN IF isCustomElement(el) /\ value.t \notin {"null", "undefined"}
       THEN [registerProp(st, el, value) EXCEPT
                !.attrs[el][name] = Attr(PropId(st.propIdCounter))]
       ELSE IF value.t \in {"null", "undefined"} \/ value = FalseV
       THEN [st EXCEPT !.attrs[el][name] = NoAttr]
       ELSE IF value = TrueV THEN [st EXCEPT !.attrs[el][name] = Attr("")]
       ELSE [st EXCEPT !.attrs[el][name] = Attr(String(value))]

\* commit (htmp.js 710-837) of a slot in a tag
commitSlot(st, el, name) ==
    LET s0 == [st EXCEPT !.commits = @ + 1]
    IN IF isEventName(name) THEN commitEvent(s0, el, name)
       ELSE commitAttribute(s0, el, name)

\* setValue (htmp.js 344-368) of a slot in a tag; its values are no arrays
\* and no template results
setSlotValue(st, el, name, value) ==
    IF StrictEq(st.parts[el][name].value, value) THEN st
    ELSE commitSlot([st EXCEPT !.parts[el][name].value = value], el, name)

\* no template with such slots is in use
SlotOff ==
    /\ slotPage = [SlotBlank EXCEPT !.parts = <<>>]
    /\ slotOps = 0
    /\ lastSlot = 0

\* no content slot has been rendered
PageOff ==
    /\ nodes = <<>>
    /\ instances = <<>>
    /\ templateCache = [s \in Strings |-> NoTemplate]
    /\ built = [s \in Strings |-> 0]
    /\ chunkJobs = <<>>
    /\ nextToken = 0
    /\ renders = 0
    /\ lastRender = 0

\* no component is in use
CompOff ==
    /\ comp = 0
    /\ compOps = 0
    /\ lastComp = 0

\* the engine has not been used
RenderOff ==
    /\ PageOff
    /\ SlotOff
    /\ CompOff

\* ------------------------------------------------- the library's state
\* The module-level state of htmp.js (lines 66-74) and the raw objects, as one
\* record the library functions below transform; ret is the returned value.  trig,
\* qlog and ran list the calls of trigger, of queueJob and of effect functions
\* made so far by the library call in progress.
Lib ==
    [rec |-> rec, list |-> list, reactiveMap |-> reactiveMap, proxies |-> proxies,
     parentMap |-> parentMap, targetMap |-> targetMap, effDeps |-> effDeps,
     currentEffect |-> currentEffect, updateQueue |-> updateQueue,
     isFlushPending |-> isFlushPending, microtasks |-> microtasks, ret |-> Undefined,
     trig |-> <<>>, qlog |-> <<>>, ran |-> <<>>]

Commit(st) ==
    /\ rec' = st.rec
    /\ list' = st.list
    /\ reactiveMap' = st.reactiveMap
    /\ proxies' = st.proxies
    /\ parentMap' = st.parentMap
    /\ targetMap' = st.targetMap
    /\ effDeps' = st.effDeps
    /\ currentEffect' = st.currentEffect
    /\ updateQueue' = st.updateQueue
    /\ isFlushPending' = st.isFlushPending
    /\ microtasks' = st.microtasks

EmptyMap == [k \in {} |-> <<>>]
MapPut(m, k, v) == [x \in DOMAIN m \cup {k} |-> IF x = k THEN v ELSE m[x]]
MapHas(m, k) == k \in DOMAIN m

\* the dependency set of (target, key): <<>> when none was created
DepsOf(tm, target, key) ==
    IF MapHas(tm, target) /\ MapHas(tm[target], key) THEN tm[target][key] ELSE <<>>

\* target[key] on a raw object
RawGet(st, target, key) ==
    IF target \in RecObj
    THEN IF key \in DOMAIN st.rec[target] THEN st.rec[target][key] ELSE Undefined
    ELSE IF key = "length" THEN NumStr[Len(st.list) + 1]
    ELSE IF key \in Index(Len(st.list)) THEN st.list[IndexOf(key) + 1]
    ELSE IF key \in arrayMethods THEN Fn
    ELSE Undefined

\* target[key] = value on a raw object; on an array, length truncates and the
\* index one past the end extends
RawSet(st, target, key, value) ==
    IF target \in RecObj
    THEN [st EXCEPT !.rec[target] = MapPut(@, key, value)]
    ELSE IF key = "length" THEN [st EXCEPT !.list = SubSeq(@, 1, IndexOf(value))]
    ELSE IF key \in Index(Len(st.list)) THEN [st EXCEPT !.list[IndexOf(key) + 1] = value]
    ELSE [st EXCEPT !.list = Append(@, value)]

\* queueJob calling the job at once instead of deferring it
queueJobSync(st, job) ==
    [st EXCEPT !.targetMap = [t \in DOMAIN @ |-> [k \in DOMAIN @[t] |-> SetDelete(@[t][k], job)]],
               !.effDeps[job] = <<>>, !.qlog = Append(@, job), !.ran = Append(@, job)]

\* queueJob arranging a flush at every call, whatever isFlushPending says
queueJobUnguarded(st, job) ==
    [st EXCEPT !.updateQueue = SetAdd(@, job), !.isFlushPending = TRUE,
               !.microtasks = @ + 1, !.qlog = Append(@, job)]

\* queueJob (htmp.js 208-219): the part that runs at the call
queueJob(st, job) ==
    IF ~st.isFlushPending
    THEN [st EXCEPT !.updateQueue = SetAdd(@, job), !.isFlushPending = TRUE,
                    !.microtasks = @ + 1, !.qlog = Append(@, job)]
    ELSE [st EXCEPT !.updateQueue = SetAdd(@, job), !.qlog = Append(@, job)]

\* the same without the test: the executing effect is queued too
RECURSIVE QueueEachUnfiltered(_, _)
QueueEachUnfiltered(st, deps) ==
    IF deps = <<>> THEN st
    ELSE QueueEachUnfiltered(queueJob(st, Head(deps)), Tail(deps))

\* deps.forEach(effect => { if (effect !== currentEffect) queueJob(effect) })
RECURSIVE QueueEach(_, _)
QueueEach(st, deps) ==
    IF deps = <<>> THEN st
    ELSE QueueEach(IF Head(deps) # st.currentEffect THEN queueJob(st, Head(deps)) ELSE st,
                   Tail(deps))

\* trigger (htmp.js 194-206)
trigger(st, target, key) ==
    LET s0 == [st EXCEPT !.trig = Append(@, <<target, key>>)]
    IN IF ~MapHas(s0.targetMap, target) THEN s0
       ELSE IF ~MapHas(s0.targetMap[target], key) THEN s0
       ELSE QueueEach(s0, s0.targetMap[target][key])

\* track recording only the properties of the object handed to reactive by
\* the user
trackRootOnly(st, target, key) ==
    IF st.currentEffect = Null \/ target # "S" THEN st
    ELSE LET depsMap == IF MapHas(st.targetMap, target) THEN st.targetMap[target]
                        ELSE EmptyMap
             deps == IF MapHas(depsMap, key) THEN depsMap[key] ELSE <<>>
         IN [st EXCEPT
                !.targetMap = MapPut(@, target, MapPut(depsMap, key, SetAdd(deps, st.currentEffect))),
                !.effDeps[st.currentEffect] = Append(@, <<target, key>>)]

\* track adding the effect to the dependency set without listing the set in
\* the effect's deps
trackSetOnly(st, target, key) ==
    IF st.currentEffect = Null THEN st
    ELSE LET depsMap == IF MapHas(st.targetMap, target) THEN st.targetMap[target]
                        ELSE EmptyMap
             deps == IF MapHas(depsMap, key) THEN depsMap[key] ELSE <<>>
         IN [st EXCEPT
                !.targetMap = MapPut(@, target, MapPut(depsMap, key, SetAdd(deps, st.currentEffect)))]

\* track testing currentEffect only after it looked up, and created, the
\* dependency set of (target, key)
trackCreatingSets(st, target, key) ==
    LET depsMap == IF MapHas(st.targetMap, target) THEN st.targetMap[target]
                   ELSE EmptyMap
        deps == IF MapHas(depsMap, key) THEN depsMap[key] ELSE <<>>
    IN IF st.currentEffect = Null
       THEN [st EXCEPT !.targetMap = MapPut(@, target, MapPut(depsMap, key, deps))]
       ELSE [st EXCEPT
                !.targetMap = MapPut(@, target, MapPut(depsMap, key, SetAdd(deps, st.currentEffect))),
                !.effDeps[st.currentEffect] = Append(@, <<target, key>>)]

\* track (htmp.js 173-192)
track(st, target, key) ==
    IF st.currentEffect = Null THEN st
    ELSE LET depsMap == IF MapHas(st.targetMap, target) THEN st.targetMap[target]
                        ELSE EmptyMap
             deps == IF MapHas(depsMap, key) THEN depsMap[key] ELSE <<>>
         IN [st EXCEPT
                !.targetMap = MapPut(@, target, MapPut(depsMap, key, SetAdd(deps, st.currentEffect))),
                !.effDeps[st.currentEffect] = Append(@, <<target, key>>)]

\* effect.deps.forEach(dep => dep.delete(effect))
RECURSIVE DeleteFromEach(_, _, _)
DeleteFromEach(tm, deps, e) ==
    IF deps = <<>> THEN tm
    ELSE LET t == Head(deps)[1]
             k == Head(deps)[2]
         IN DeleteFromEach(MapPut(tm, t, MapPut(tm[t], k, SetDelete(tm[t][k], e))),
                           Tail(deps), e)

\* cleanupEffect emptying effect.deps without leaving the dependency sets
cleanupEffectListOnly(st, e) == [st EXCEPT !.effDeps[e] = <<>>]

\* cleanupEffect (htmp.js 221-226)
cleanupEffect(st, e) ==
    [st EXCEPT !.targetMap = DeleteFromEach(@, st.effDeps[e], e),
               !.effDeps[e] = <<>>]

\* reactive without the reactiveMap lookup: a new Proxy at every call
reactiveUncached(st, obj, parentTarget, parentKey) ==
    IF ~IsObject(obj) THEN [st EXCEPT !.ret = obj]
    ELSE IF obj \in ProxyId THEN [st EXCEPT !.ret = obj]
    ELSE [st EXCEPT !.proxies = Append(@, obj),
                    !.reactiveMap[obj] = ProxyIds[Len(st.proxies) + 1],
                    !.ret = ProxyIds[Len(st.proxies) + 1]]

\* reactive (htmp.js 78-171); a falsy parentTarget / null parentKey is Null
reactive(st, obj, parentTarget, parentKey) ==
    IF ~IsObject(obj) THEN [st EXCEPT !.ret = obj]
    ELSE IF obj \in ProxyId THEN [st EXCEPT !.ret = obj]
    ELSE LET withParent ==
                 IF parentTarget # Null /\ parentKey # Null
                 THEN [st EXCEPT !.parentMap[obj] = <<parentTarget, parentKey>>]
                 ELSE st
         IN IF st.reactiveMap[obj] # Null
            THEN [withParent EXCEPT !.ret = st.reactiveMap[obj]]
            ELSE [withParent EXCEPT !.proxies = Append(@, obj),
                                    !.reactiveMap[obj] = ProxyIds[Len(st.proxies) + 1],
                                    !.ret = ProxyIds[Len(st.proxies) + 1]]

\* the condition without its clause for objects
ChangedStrict(oldValue, value) == oldValue # value

\* the condition under which the set trap notifies (htmp.js 120)
Changed(oldValue, value) == oldValue # value \/ IsObject(value)

\* the get trap handing out a nested object as it is stored
GetTrapShallow(st, target, key) ==
    LET s1 == track(st, target, key)
        s2 == IF target \in ArrObj THEN track(s1, target, ARRAY) ELSE s1
    IN [s2 EXCEPT !.ret = RawGet(s2, target, key)]

\* the get trap of a proxy whose target is target (htmp.js 98-114)
GetTrap(st, target, key) ==
    LET s1 == track(st, target, key)
        s2 == IF target \in ArrObj THEN track(s1, target, ARRAY) ELSE s1
        value == RawGet(s2, target, key)
    IN IF IsObject(value) THEN reactive(s2, value, target, key)
       ELSE [s2 EXCEPT !.ret = value]

\* the notification going up through every recorded parent edge instead of one
RECURSIVE TriggerAncestors(_, _)
TriggerAncestors(st, target) ==
    IF st.parentMap[target] # <<>>
    THEN TriggerAncestors(trigger(st, st.parentMap[target][1], st.parentMap[target][2]),
                          st.parentMap[target][1])
    ELSE st

\* const parentInfo = parentMap.get(target); if (parentInfo) trigger(...)
TriggerParent(st, target) ==
    IF st.parentMap[target] # <<>>
    THEN trigger(st, st.parentMap[target][1], st.parentMap[target][2])
    ELSE st

\* the set trap (htmp.js 115-136)
SetTrap(st, target, key, value) ==
    LET oldValue == RawGet(st, target, key)
        s1 == RawSet(st, target, key, value)
    IN IF Changed(oldValue, value)
       THEN LET s2 == trigger(s1, target, key)
                s3 == IF target \in ArrObj /\ key = "length" THEN trigger(s2, target, ARRAY)
                      ELSE s2
            IN [TriggerParent(s3, target) EXCEPT !.ret = "true"]
       ELSE [s1 EXCEPT !.ret = "true"]

\* Array.prototype[method].apply(raw, args) on the elements; sort() without a
\* comparator orders by the string form
ApplyMethod(l, method, arg) ==
    CASE method = "push" -> Append(l, arg)
      [] method = "pop" -> IF l = <<>> THEN l ELSE SubSeq(l, 1, Len(l) - 1)
      [] method = "shift" -> IF l = <<>> THEN l ELSE Tail(l)
      [] method = "unshift" -> <<arg>> \o l
      [] method = "splice" -> SubSeq(l, 1, IndexOf(arg)) \o SubSeq(l, IndexOf(arg) + 2, Len(l))
      [] method = "sort" -> SortSeq(l, LAMBDA a, b : IndexOf(a) < IndexOf(b))
      [] method = "reverse" -> SubSeq([i \in 1..Len(l) |-> l[Len(l) + 1 - i]], 1, Len(l))

\* the method not intercepted: Array.prototype[method] alone
MethodNotIntercepted(st, obj, method, arg) ==
    [st EXCEPT !.list = ApplyMethod(@, method, arg)]

\* the function installed for each mutating method (htmp.js 145-161)
MethodWrapper(st, obj, method, arg) ==
    LET s1 == [st EXCEPT !.list = ApplyMethod(@, method, arg)]
        s2 == trigger(s1, obj, ARRAY)
        s3 == trigger(s2, obj, "length")
    IN TriggerParent(s3, obj)

\* effectFn calling fn without installing itself as currentEffect
EnterEffectUntracked(st, e) ==
    [cleanupEffect(st, e) EXCEPT !.ran = Append(@, e)]

\* effectFn up to the call of fn (htmp.js 229-234): the frame keeps prevEffect
EnterEffect(st, e) ==
    [cleanupEffect(st, e) EXCEPT !.currentEffect = e, !.ran = Append(@, e)]

Frame(e, prev) == [eff |-> e, prev |-> prev]

\* ---------------------------------------------------------------- steps
\* last: the library call of the last step: its arguments, the value the
\* property had before (old), what it returned, the executing effect (by) and
\* the calls of trigger, queueJob and effect functions it made
NoCall == [op |-> "none", target |-> Null, key |-> Null, value |-> Null, old |-> Null,
           ret |-> Undefined, by |-> Null, trig |-> <<>>, qlog |-> <<>>, ran |-> <<>>]
Call(op, target, key, value, old, st) ==
    [op |-> op, target |-> target, key |-> key, value |-> value, old |-> old,
     ret |-> st.ret, by |-> currentEffect, trig |-> st.trig, qlog |-> st.qlog,
     ran |-> st.ran]
Step(op, e) == [NoCall EXCEPT !.op = op, !.target = e, !.by = currentEffect]

\* hist: what the properties need to know of the past.
\*   runs, ran    the executions jobs.forEach started in the current (or last) flush
\*   reads        the properties each effect read through a proxy in its latest run
\*   past         those it read in its earlier runs
\*   expect       the effects notified since the pending set was last cleared:
\*                those in the dependency set of a triggered key, the executing
\*                one excepted
\*   order        the effects handed to queueJob since then, by first call
\*   reent        those handed to queueJob while a flush was running
\*   cyc          expect, order and reent of the cycle the current flush executes
NoRuns == [e \in Effect |-> 0]
NoReads == [e \in Effect |-> {}]
NoCycle == [expect |-> {}, order |-> <<>>, reent |-> {}]
NoHist == [runs |-> NoRuns, ran |-> <<>>, reads |-> NoReads, past |-> NoReads, expect |-> {},
           order |-> <<>>, reent |-> {}, cyc |-> NoCycle]

RECURSIVE AddAll(_, _)
AddAll(s, xs) == IF xs = <<>> THEN s ELSE AddAll(SetAdd(s, Head(xs)), Tail(xs))

Notified(trig) ==
    UNION {SeqToSet(DepsOf(targetMap, trig[i][1], trig[i][2])) : i \in 1..Len(trig)}
        \ {currentEffect}

\* the bookkeeping after a library call that ended in state st
Noted(h, st) ==
    [h EXCEPT !.expect = @ \cup Notified(st.trig),
              !.order = AddAll(@, st.qlog),
              !.reent = IF ctx = "flush" THEN @ \cup SeqToSet(st.qlog) ELSE @]

Top == stack[Len(stack)]

\* user code is running and may make one more library call
CanAct ==
    /\ fuel > 0
    /\ stack = <<>> => ctx = "host"

\* the state before the program touched the library
Blank ==
    [rec |-> [o \in RecObj |-> EmptyMap], list |-> <<>>,
     reactiveMap |-> [o \in RawObj |-> Null], proxies |-> <<>>,
     parentMap |-> [o \in RawObj |-> <<>>], targetMap |-> EmptyMap,
     effDeps |-> [e \in Effect |-> <<>>], currentEffect |-> Null,
     updateQueue |-> <<>>, isFlushPending |-> FALSE, microtasks |-> 0,
     ret |-> Undefined, trig |-> <<>>, qlog |-> <<>>, ran |-> <<>>]

\* The programs: the objects they allocate, and the bodies their effects run
\* first.  flat: S = {a: 0, b: 0}; nested: S = {v: N}, N = {x: 0};
\* array: S = {v: L}, L = [1, 0]; deep: S = {v: N, w: N}, N = {x: L}, L = [1, 0].
Worlds == {"flat", "nested", "array", "deep"}
WorldObjs(w) ==
    CASE w = "flat" -> {"S"} [] w = "nested" -> {"S", "N"} [] w = "array" -> {"S", "L"}
      [] w = "deep" -> {"S", "N", "L"}
WorldRec(w) ==
    CASE w = "flat" -> [o \in RecObj |-> IF o = "S" THEN [k \in {"a", "b"} |-> "0"] ELSE EmptyMap]
      [] w = "nested" -> [o \in RecObj |-> IF o = "S" THEN [k \in {"v"} |-> "N"]
                                           ELSE [k \in {"x"} |-> "0"]]
      [] w = "array" -> [o \in RecObj |-> IF o = "S" THEN [k \in {"v"} |-> "L"] ELSE EmptyMap]
      [] w = "deep" -> [o \in RecObj |-> IF o = "S" THEN [k \in {"v", "w"} |-> "N"]
                                         ELSE [k \in {"x"} |-> "L"]]
WorldList(w) == IF w \in {"array", "deep"} THEN <<"1", "0">> ELSE <<>>
\* what fn1 and fn2 read in their first execution
SA == <<"S", "a">>
SB == <<"S", "b">>
SV == <<"S", "v">>
Program(b1, b2, wrote) == [b1 |-> b1, b2 |-> b2, wrote |-> wrote]
Programs(w) ==
    CASE w = "flat" -> {Program(<<SA>>, <<SB>>, FALSE), Program(<<SA, SB>>, <<SA>>, FALSE)}
      [] w = "nested" -> {Program(<<SV>>, <<SV, <<"N", "x">> >>, FALSE)}
      [] w = "array" -> {Program(<<SV>>, <<SV, <<"L", "length">> >>, FALSE),
                         Program(<<SV, <<"L", "0">> >>, <<SV, <<"L", "length">> >>, FALSE),
                         Program(<<SV, <<"L", "0">> >>, <<SV, <<"L", "length">> >>, TRUE)}
      [] w = "deep" -> {Program(<<SV>>, <<SV, <<"N", "x">> >>, FALSE)}

\* fn reads the properties of body in turn
RECURSIVE RunReads(_, _)
RunReads(st, body) ==
    IF body = <<>> THEN st
    ELSE RunReads(GetTrap(st, Head(body)[1], Head(body)[2]), Tail(body))

\* effect(fn) with fn reading body and returning (htmp.js 228-243)
FirstRun(st, e, body) ==
    [RunReads(EnterEffect(st, e), body) EXCEPT !.currentEffect = st.currentEffect]

\* const s = reactive(S); effect(fn1); effect(fn2); and, if the program does
\* so, s.v = s.v before the script goes on
Constructed(w, pr) ==
    LET s0 == [Blank EXCEPT !.rec = WorldRec(w), !.list = WorldList(w)]
        s1 == reactive(s0, "S", Null, Null)
        s2 == FirstRun(s1, "e1", pr.b1)
        s3 == [FirstRun(s2, "e2", pr.b2) EXCEPT !.ran = <<>>]
    IN IF pr.wrote THEN SetTrap(s3, "S", "v", RawGet(s3, "S", "v")) ELSE s3

InitFrom(st) ==
    /\ rec = st.rec
    /\ list = st.list
    /\ reactiveMap = st.reactiveMap
    /\ proxies = st.proxies
    /\ parentMap = st.parentMap
    /\ targetMap = st.targetMap
    /\ effDeps = st.effDeps
    /\ currentEffect = st.currentEffect
    /\ updateQueue = st.updateQueue
    /\ isFlushPending = st.isFlushPending
    /\ microtasks = st.microtasks

\* Either the program has only allocated its objects, or it has wrapped its
\* state and built its two effects; the host script is running.
Init ==
    /\ \E w \in Worlds :
        /\ objs = WorldObjs(w)
        /\ \/ /\ InitFrom([Blank EXCEPT !.rec = WorldRec(w), !.list = WorldList(w)])
              /\ created = {}
              /\ hist = NoHist
           \/ \E pr \in Programs(w) :
                /\ InitFrom(Constructed(w, pr))
                /\ created = {"e1", "e2"}
                /\ hist = [NoHist EXCEPT
                               !.reads = [e \in Effect |-> SeqToSet(IF e = "e1" THEN pr.b1 ELSE pr.b2)],
                               !.expect = SeqToSet(Constructed(w, pr).qlog),
                               !.order = AddAll(<<>>, Constructed(w, pr).qlog)]
    /\ ctx = "host"
    /\ stack = <<>>
    /\ jobs = <<>>
    /\ jobIdx = 1
    /\ fuel = IF "L" \in objs THEN ArrayOps ELSE MaxOps
    /\ last = NoCall
    /\ RenderOff

\* user code calls reactive(obj) on a raw object or on a proxy it holds
CallReactive(obj) ==
    /\ CanAct
    /\ obj \in ProxyId => ProxyIndex(obj) <= Len(proxies)
    /\ Len(proxies) < Len(ProxyIds)
    /\ LET st == reactive(Lib, obj, Null, Null)
       IN /\ Commit(st)
          /\ last' = Call("reactive", obj, Null, Null,
                           IF obj \in RawObj THEN reactiveMap[obj] ELSE Null, st)
    /\ fuel' = fuel - 1
    /\ UNCHANGED <<renderVars, objs, created, ctx, stack, jobs, jobIdx, hist>>

\* the properties user code reads and the values it writes
ReadKeys(o) == IF o \in RecObj THEN DOMAIN rec[o] ELSE {"length"} \cup Index(MaxLen)
WriteVals(o, k) ==
    IF o = "S" /\ k = "v" THEN (objs \ {"S"}) \cup {Null}
    ELSE IF o \in RecObj THEN Prim
    ELSE IF k = "length" THEN Index(Len(list) + 1)
    ELSE IF k \in Index(Len(list)) THEN Prim
    ELSE {}
MethodArgs(method) ==
    IF method \in {"push", "unshift"} THEN IF Len(list) < MaxLen THEN Prim ELSE {}
    ELSE IF method = "splice" THEN Index(Len(list))
    ELSE {Undefined}

NoteRead(h, target, key) ==
    IF currentEffect = Null THEN h
    ELSE [h EXCEPT !.reads[currentEffect] = @ \cup {<<target, key>>}]

\* user code reads proxy.key, the proxy being the one of target
Get(target, key) ==
    /\ CanAct
    /\ reactiveMap[target] # Null
    /\ Len(proxies) < Len(ProxyIds)
    /\ LET st == GetTrap(Lib, target, key)
       IN /\ Commit(st)
          /\ last' = Call("get", target, key, Null, Null, st)
    /\ hist' = NoteRead(hist, target, key)
    /\ fuel' = fuel - 1
    /\ UNCHANGED <<renderVars, objs, created, ctx, stack, jobs, jobIdx>>

\* user code assigns proxy.key = value
Set(target, key, value) ==
    /\ CanAct
    /\ reactiveMap[target] # Null
    /\ LET st == SetTrap(Lib, target, key, value)
       IN /\ Commit(st)
          /\ last' = Call("set", target, key, value, RawGet(Lib, target, key), st)
          /\ hist' = Noted(hist, st)
    /\ fuel' = fuel - 1
    /\ UNCHANGED <<renderVars, objs, created, ctx, stack, jobs, jobIdx>>

\* user code calls proxy.method(arg) on the array proxy: the get trap hands out
\* the installed function, which is then called
ArrayCall(obj, method, arg) ==
    /\ CanAct
    /\ reactiveMap[obj] # Null
    /\ LET st == MethodWrapper(GetTrap(Lib, obj, method), obj, method, arg)
       IN /\ Commit(st)
          /\ last' = Call(method, obj, method, arg, list, st)
          /\ hist' = Noted(NoteRead(hist, obj, method), st)
    /\ fuel' = fuel - 1
    /\ UNCHANGED <<renderVars, objs, created, ctx, stack, jobs, jobIdx>>

\* user code calls effect(fn): the effect function is built and called at once
CreateEffect ==
    /\ CanAct
    /\ Cardinality(created) < Len(EffectIds)
    /\ LET e == EffectIds[Cardinality(created) + 1]
           st == EnterEffect([Lib EXCEPT !.effDeps[e] = <<>>], e)
       IN /\ Commit(st)
          /\ created' = created \cup {e}
          /\ last' = Call("effect", e, Null, Null, Null, st)
          /\ hist' = [hist EXCEPT !.reads[e] = {}, !.past[e] = {}]
          /\ stack' = Append(stack, Frame(e, currentEffect))
    /\ fuel' = fuel - 1
    /\ UNCHANGED <<renderVars, objs, ctx, jobs, jobIdx>>

\* the host calls an effect function it holds
CallEffect(e) ==
    /\ CanAct
    /\ stack = <<>>
    /\ e \in created
    /\ Commit(EnterEffect(Lib, e))
    /\ last' = Call("run", e, Null, Null, Null, EnterEffect(Lib, e))
    /\ hist' = [hist EXCEPT !.reads[e] = {}, !.past[e] = @ \cup hist.reads[e]]
    /\ fuel' = fuel - 1
    /\ stack' = <<Frame(e, currentEffect)>>
    /\ UNCHANGED <<renderVars, objs, created, ctx, jobs, jobIdx>>

\* fn returns and effectFn leaves currentEffect empty instead of restoring it
ReturnClearing ==
    /\ stack # <<>>
    /\ currentEffect' = Null
    /\ stack' = SubSeq(stack, 1, Len(stack) - 1)
    /\ last' = Step("return", Top.eff)
    /\ UNCHANGED <<renderVars, objs, rec, list, reactiveMap, proxies, parentMap, targetMap, effDeps, created,
                   updateQueue, isFlushPending, microtasks, ctx, jobs, jobIdx, fuel, hist>>

\* fn returns: the finally block restores currentEffect (htmp.js 235-237)
Return ==
    /\ stack # <<>>
    /\ currentEffect' = Top.prev
    /\ stack' = SubSeq(stack, 1, Len(stack) - 1)
    /\ last' = Step("return", Top.eff)
    /\ UNCHANGED <<renderVars, objs, rec, list, reactiveMap, proxies, parentMap, targetMap, effDeps, created,
                   updateQueue, isFlushPending, microtasks, ctx, jobs, jobIdx, fuel, hist>>

\* fn throws and nothing below catches it: every finally block on the way
\* restores currentEffect; inside a flush the exception leaves jobs.forEach
\* and the flush callback
Throw ==
    /\ stack # <<>>
    /\ currentEffect' = stack[1].prev
    /\ stack' = <<>>
    /\ ctx' = IF ctx = "flush" THEN "idle" ELSE ctx
    /\ last' = Step(IF ctx = "flush" THEN "abort" ELSE "throw", Top.eff)
    /\ UNCHANGED <<renderVars, objs, rec, list, reactiveMap, proxies, parentMap, targetMap, effDeps, created,
                   updateQueue, isFlushPending, microtasks, jobs, jobIdx, fuel, hist>>

\* the flush callback starts (htmp.js 213-215)
FlushStart ==
    /\ ctx = "idle"
    /\ microtasks > 0
    /\ microtasks' = microtasks - 1
    /\ jobs' = updateQueue
    /\ updateQueue' = <<>>
    /\ isFlushPending' = FALSE
    /\ jobIdx' = 1
    /\ ctx' = "flush"
    /\ last' = Step("flush", Null)
    /\ hist' = [hist EXCEPT !.runs = NoRuns, !.ran = <<>>, !.expect = {}, !.order = <<>>,
                             !.reent = {},
                             !.cyc = [expect |-> hist.expect, order |-> hist.order,
                                      reent |-> hist.reent]]
    /\ UNCHANGED <<renderVars, objs, rec, list, reactiveMap, proxies, parentMap, targetMap, effDeps, created,
                   currentEffect, stack, fuel>>

\* jobs.forEach(job => job()): the next job is called (htmp.js 216)
FlushJob ==
    /\ ctx = "flush"
    /\ stack = <<>>
    /\ jobIdx <= Len(jobs)
    /\ Commit(EnterEffect(Lib, jobs[jobIdx]))
    /\ stack' = <<Frame(jobs[jobIdx], currentEffect)>>
    /\ jobIdx' = jobIdx + 1
    /\ last' = Call("job", jobs[jobIdx], Null, Null, Null, EnterEffect(Lib, jobs[jobIdx]))
    /\ hist' = [hist EXCEPT !.runs[jobs[jobIdx]] = @ + 1, !.ran = Append(@, jobs[jobIdx]),
                             !.reads[jobs[jobIdx]] = {},
                             !.past[jobs[jobIdx]] = @ \cup hist.reads[jobs[jobIdx]]]
    /\ UNCHANGED <<renderVars, objs, created, ctx, jobs, fuel>>

\* forEach is through: the flush callback returns
FlushEnd ==
    /\ ctx = "flush"
    /\ stack = <<>>
    /\ jobIdx > Len(jobs)
    /\ ctx' = "idle"
    /\ last' = Step("flushEnd", Null)
    /\ UNCHANGED <<renderVars, objs, rec, list, reactiveMap, proxies, parentMap, targetMap, effDeps, created,
                   currentEffect, updateQueue, isFlushPending, microtasks, stack, jobs,
                   jobIdx, fuel, hist>>

\* the host's synchronous code returns to the event loop
HostEnd ==
    /\ ctx = "host"
    /\ stack = <<>>
    /\ ctx' = "idle"
    /\ last' = Step("hostEnd", Null)
    /\ UNCHANGED <<renderVars, objs, rec, list, reactiveMap, proxies, parentMap, targetMap, effDeps, created,
                   currentEffect, updateQueue, isFlushPending, microtasks, stack, jobs,
                   jobIdx, fuel, hist>>

\* the event loop starts the next task once no microtask is left
HostStart ==
    /\ ctx = "idle"
    /\ microtasks = 0
    /\ fuel > 0
    /\ ctx' = "host"
    /\ last' = Step("hostStart", Null)
    /\ UNCHANGED <<renderVars, objs, rec, list, reactiveMap, proxies, parentMap, targetMap, effDeps, created,
                   currentEffect, updateQueue, isFlushPending, microtasks, stack, jobs,
                   jobIdx, fuel, hist>>

Next ==
    \/ \E obj \in objs \cup ProxyId : CallReactive(obj)
    \/ \E o \in objs : \E k \in ReadKeys(o) : Get(o, k)
    \/ \E o \in objs : \E k \in ReadKeys(o) : \E v \in WriteVals(o, k) : Set(o, k, v)
    \/ \E o \in objs \cap ArrObj : \E m \in arrayMethods : \E a \in MethodArgs(m) : ArrayCall(o, m, a)
    \/ CreateEffect
    \/ \E e \in Effect : CallEffect(e)
    \/ Return
    \/ Throw
    \/ FlushStart
    \/ FlushJob
    \/ FlushEnd
    \/ HostEnd
    \/ HostStart

Spec == Init /\ [][Next]_vars

\* ------------------------------------------------- the page's steps
\* calls of render a page script makes
RenderOps == MaxOps - 2

\* What the page renders.  Its lists hold results of the item template LI,
\* all with the value "a" or with one item changed to "b", or plain strings.
Item(strings, x) == TemplateResult(strings, <<Text(x)>>)
Same(n) == SubSeq([i \in 1..n |-> Item("LI", "a")], 1, n)
OneChanged(n, k) == SubSeq([i \in 1..n |-> Item("LI", IF i = k THEN "b" ELSE "a")], 1, n)
Strs(n) == SubSeq([i \in 1..n |-> Text(IF i % 2 = 1 THEN "a" ELSE "b")], 1, n)
\* n items of LI, the value of the first being a string with markup
MarkupFirst(n) == SubSeq([i \in 1..n |-> Item("LI", IF i = 1 THEN "<b>a</b>" ELSE "a")], 1, n)
\* two items the first of which is of another call site than LI
OtherFirst(strings) == <<Item(strings, "a"), Item("LI", "a")>>
Lists ==
    {Arr(Same(n)) : n \in 0..MaxList}
        \cup UNION {{Arr(OneChanged(n, k)) : k \in {1, n}} : n \in 1..MaxList}
        \cup {Arr(Strs(n)) : n \in 1..2}
        \cup {Arr(OtherFirst(strings)) : strings \in {"PI", "WLI"}}
        \cup {Arr(MarkupFirst(FAST_LIST_THRESHOLD))}
SlotValues ==
    {Text("a"), Text("<b>a</b>"), NaN, Item("PI", "a"), Item("PI", "b")} \cup Lists
Results ==
    {TemplateResult("ROOT", <<v>>) : v \in SlotValues} \cup {TemplateResult("ALT", <<Text("a")>>)}
\* what the page hands to render: a result, or by mistake a string
Arguments == Results \cup {Text("a")}
\* the elements its own array has when it is rendered
MutItems == {Strs(n) : n \in 1..2}
\* the page when the script starts: nothing rendered yet, or a list of two
\* strings rendered into the container by an earlier script
ListedPage == [render(PageBlank, TemplateResult("ROOT", <<Arr(Strs(2))>>), Container)
                  EXCEPT !.commits = 0]
StartPages == {PageBlank, ListedPage}

\* the reactive core is not used
CoreOff ==
    /\ objs = {}
    /\ InitFrom(Blank)
    /\ created = {}
    /\ hist = NoHist
    /\ ctx = "idle"
    /\ stack = <<>>
    /\ jobs = <<>>
    /\ jobIdx = 1
    /\ fuel = 0
    /\ last = NoCall

NoJob == [self |-> 0, node |-> 0, token |-> 0, i |-> 0, newArray |-> NoSource, commits |-> 0]
\* what a step starts from
Before == [nodes |-> nodes, instances |-> instances, templateCache |-> templateCache]
NoRender ==
    [op |-> "none", result |-> UndefinedV, commits |-> 0, threw |-> FALSE, job |-> NoJob,
     pre |-> [nodes |-> <<>>, instances |-> <<>>,
              templateCache |-> [s \in Strings |-> NoTemplate]]]

RenderInit ==
    /\ CoreOff
    /\ SlotOff
    /\ CompOff
    /\ \E st \in StartPages : PageCommitted(st)
    /\ renders = RenderOps
    /\ lastRender = NoRender

\* the page script calls render(result, container); an exception ends the call
CallRender(result) ==
    /\ renders > 0
    /\ LET st == render(Page, result, Container)
       IN /\ PageCommit(st)
          /\ lastRender' = [op |-> "render", result |-> result, commits |-> st.commits,
                            threw |-> st.threw, job |-> NoJob, pre |-> Before]
    /\ renders' = renders - 1
    /\ UNCHANGED <<coreVars, slotVars, compVars>>

\* the page script changes the elements of its array in place (push, pop)
\* and calls render with the same array object in the slot
RenderMutated(items) ==
    /\ renders > 0
    /\ LET s0 == MutateInPlace(Page, items)
           result == TemplateResult("ROOT", <<Mut(items)>>)
           st == render(s0, result, Container)
       IN /\ PageCommit(st)
          /\ lastRender' = [op |-> "render", result |-> result, commits |-> st.commits,
                            threw |-> st.threw, job |-> NoJob,
                            pre |-> [nodes |-> s0.nodes, instances |-> s0.instances,
                                     templateCache |-> s0.templateCache]]
    /\ renders' = renders - 1
    /\ UNCHANGED <<coreVars, slotVars, compVars>>

\* an idle period (or timer) runs the oldest waiting step callback, which
\* takes count items before its deadline
IdleStep(count) ==
    /\ chunkJobs # <<>>
    /\ PageCommit(step(Page, count))
    /\ lastRender' = [op |-> "step", result |-> Head(chunkJobs).newArray, commits |-> 0,
                      threw |-> FALSE, job |-> Head(chunkJobs), pre |-> Before]
    /\ UNCHANGED <<renders, coreVars, slotVars, compVars>>

RenderNext ==
    \/ \E result \in Arguments : CallRender(result)
    \/ \E items \in MutItems : RenderMutated(items)
    \/ \E count \in 1..CHUNK_SIZE : IdleStep(count)

RenderSpec == RenderInit /\ [][RenderNext]_vars

\* The same with the host delivering the callbacks it was asked for:
\* requestIdleCallback(step) and setTimeout(step, 0) (htmp.js 298-302, 312-316)
\* call step in the end, with time for at least one item.
RenderFairSpec ==
    RenderSpec /\ WF_vars(\E count \in 1..CHUNK_SIZE : IdleStep(count))

\* -------------------------------------------- the slots' steps
SlotOpsMax == MaxOps - 1
\* what the page hands to the slots
AttributeValues == {TrueV, FalseV, NullV, UndefinedV, Text("a"), Text(""), Zero}
EventValues == Funcs \cup {NullV, UndefinedV, Text("a")}
ValuesFor(name) == IF isEventName(name) THEN EventValues ELSE AttributeValues

NoSlot == [op |-> "none", el |-> "", name |-> "", value |-> UndefinedV, commits |-> 0,
           pre |-> SlotBlank]

SlotInit ==
    /\ CoreOff
    /\ PageOff
    /\ CompOff
    /\ slotPage = SlotBlank
    /\ slotOps = SlotOpsMax
    /\ lastSlot = NoSlot

\* instance.update(values) hands value to the part of the slot name of el
UpdateSlot(el, name, value) ==
    /\ slotOps > 0
    /\ slotPage' = [setSlotValue(slotPage, el, name, value) EXCEPT !.commits = 0]
    /\ lastSlot' = [op |-> "update", el |-> el, name |-> name, value |-> value,
                    commits |-> setSlotValue(slotPage, el, name, value).commits,
                    pre |-> slotPage]
    /\ slotOps' = slotOps - 1
    /\ UNCHANGED <<coreVars, nodes, instances, templateCache, built, chunkJobs, nextToken,
                   renders, lastRender, compVars>>

SlotNext ==
    \E el \in Elements : \E name \in SlotNames : \E value \in ValuesFor(name) :
        UpdateSlot(el, name, value)

SlotSpec == SlotInit /\ [][SlotNext]_vars

\* ------------------------------------------------------ the components
\* The component of the page, createComponent('x-item', setup): setup calls
\* useState ns times and returns a render function, which calls useState nr
\* times and reads every state setup made; with fails, setup throws in its
\* first execution, after its calls of useState.
CompPrograms == [ns : 1..2, nr : 0..2, fails : BOOLEAN]
\* the objects { value: initialValue } of the states, by index
StateObjs == <<"S", "N">>

\* new ReactiveComponent() (htmp.js 1117-1131) and the module's context
\* (htmp.js 993-996).  Kept for the properties: nextFunc numbers the state
\* functions made, first lists the function each index returned first,
\* setupRuns and renderRuns count the executions of setup and of the render
\* function, passes lists what useState returned in each pass of the call
\* in progress, threw tells that the call threw.
Component(program) ==
    [program |-> program, states |-> <<>>, mounted |-> FALSE, renderFn |-> FALSE,
     setupCompleted |-> FALSE, effect |-> Null,
     currentComponentStates |-> Null, currentStateIndex |-> 0, currentInstance |-> Null,
     nextFunc |-> 0, first |-> <<>>, setupRuns |-> 0, renderRuns |-> 0,
     passes |-> <<>>, threw |-> FALSE]

\* the state the component's functions transform: the library's and the
\* component's
CompPage == Lib @@ [comp EXCEPT !.passes = <<>>, !.threw = FALSE]

CompCommit(st) ==
    /\ Commit(st)
    /\ comp' = [f \in DOMAIN comp |-> st[f]]

BeginPass(st) == [st EXCEPT !.passes = Append(@, <<>>)]
\* the k-th call of useState of the pass returns func
Returns(st, func, k) ==
    [st EXCEPT !.passes[Len(st.passes)] = Append(@, func),
               !.first = IF Len(@) < k THEN Append(@, func) ELSE @]

\* useState making a state function at every call
useStateFresh(st, initialValue) ==
    IF st.currentComponentStates = Null THEN [st EXCEPT !.threw = TRUE]
    ELSE LET index == st.currentStateIndex
             s1 == [st EXCEPT !.currentStateIndex = @ + 1, !.nextFunc = @ + 1]
             func == s1.nextFunc
         IN IF index >= Len(s1.states)
            THEN LET obj == StateObjs[index + 1]
                     s2 == reactive([s1 EXCEPT !.rec[obj] = [k \in {"value"} |-> initialValue]],
                                    obj, Null, Null)
                 IN Returns([s2 EXCEPT !.states = Append(@, [state |-> obj, func |-> func])],
                            func, index + 1)
            ELSE Returns([s1 EXCEPT !.states[index + 1].func = func], func, index + 1)

\* useState (htmp.js 1027-1052); states[index].state is the proxy of obj
useState(st, initialValue) ==
    IF st.currentComponentStates = Null THEN [st EXCEPT !.threw = TRUE]
    ELSE LET index == st.currentStateIndex
             s1 == [st EXCEPT !.currentStateIndex = @ + 1]
         IN IF index >= Len(s1.states)
            THEN LET obj == StateObjs[index + 1]
                     s2 == reactive([s1 EXCEPT !.rec[obj] = [k \in {"value"} |-> initialValue]],
                                    obj, Null, Null)
                     func == s2.nextFunc + 1
                 IN Returns([s2 EXCEPT !.states = Append(@, [state |-> obj, func |-> func]),
                                       !.nextFunc = func],
                            func, index + 1)
            ELSE Returns(s1, s1.states[index + 1].func, index + 1)

\* n calls of useState('0') in a row
RECURSIVE UseStates(_, _)
UseStates(st, n) == IF n = 0 THEN st ELSE UseStates(useState(st, "0"), n - 1)

\* the render function reads the states from index i on: count()
RECURSIVE ReadStates(_, _)
ReadStates(st, i) ==
    IF i > st.program.ns THEN st
    ELSE ReadStates(GetTrap(st, st.states[i].state, "value"), i + 1)

\* _runSetup (htmp.js 1217-1249)
runSetup(st) ==
    LET s1 == BeginPass([st EXCEPT !.currentComponentStates = "this",
                                   !.currentStateIndex = 0,
                                   !.currentInstance = "this",
                                   !.setupRuns = @ + 1])
        s2 == UseStates(s1, st.program.ns)
        s3 == IF st.program.fails /\ st.setupRuns = 0 THEN [s2 EXCEPT !.threw = TRUE]
              ELSE [s2 EXCEPT !.renderFn = TRUE, !.setupCompleted = TRUE]
    IN [s3 EXCEPT !.currentComponentStates = st.currentComponentStates,
                  !.currentStateIndex = st.currentStateIndex,
                  !.currentInstance = st.currentInstance]

\* the function handed to effect by _setupEffect (htmp.js 1334-1360)
RenderPass(st) ==
    IF ~st.mounted \/ ~st.renderFn THEN st
    ELSE LET s1 == BeginPass([st EXCEPT !.currentComponentStates = "this",
                                        !.currentStateIndex = 0])
             s2 == ReadStates(UseStates(s1, st.program.nr), 1)
         IN [s2 EXCEPT !.renderRuns = @ + 1,
                       !.currentComponentStates = st.currentComponentStates,
                       !.currentStateIndex = st.currentStateIndex]

\* effectFn (htmp.js 229-238) of a component's effect
RunEffect(st, e) == [RenderPass(EnterEffect(st, e)) EXCEPT !.currentEffect = st.currentEffect]

\* _setupEffect (htmp.js 1325-1362): e is the effect that effect() makes
setupEffect(st, e) == [RunEffect(st, e) EXCEPT !.effect = e]

\* connectedCallback calling setup whether or not it has completed
connectedCallbackSetupAlways(st, e) ==
    LET s2 == runSetup([st EXCEPT !.mounted = TRUE])
    IN IF s2.threw THEN s2 ELSE setupEffect(s2, e)

\* connectedCallback (htmp.js 1190-1208); the component registers no hook
connectedCallback(st, e) ==
    LET s1 == [st EXCEPT !.mounted = TRUE]
        s2 == IF ~s1.setupCompleted THEN runSetup(s1) ELSE s1
    IN IF s2.threw THEN s2 ELSE setupEffect(s2, e)

\* disconnectedCallback (htmp.js 1210-1215)
disconnectedCallback(st) == [st EXCEPT !.mounted = FALSE]

\* jobs.forEach(job => job()) (htmp.js 216)
RECURSIVE RunJobs(_, _)
RunJobs(st, js) == IF js = <<>> THEN st ELSE RunJobs(RunEffect(st, Head(js)), Tail(js))

\* the callback of queueJob (htmp.js 212-217)
flush(st) ==
    RunJobs([st EXCEPT !.updateQueue = <<>>, !.isFlushPending = FALSE, !.microtasks = @ - 1],
            st.updateQueue)

CompOpsMax == MaxOps

NoComp == [op |-> "none", index |-> 0, pre |-> Component([ns |-> 1, nr |-> 0, fails |-> FALSE])]

\* The element has been created and is not in the document; the library has
\* no other user.
CompInit ==
    /\ CoreOff
    /\ PageOff
    /\ SlotOff
    /\ \E program \in CompPrograms : comp = Component(program)
    /\ compOps = CompOpsMax
    /\ lastComp = NoComp

CompUnchanged ==
    UNCHANGED <<objs, ctx, stack, jobs, jobIdx, fuel, last, hist, nodes, instances,
                templateCache, built, chunkJobs, nextToken, renders, lastRender, slotVars>>

\* the element is inserted into the document
Connect ==
    /\ compOps > 0
    /\ ~comp.mounted
    /\ Cardinality(created) < Len(EffectIds)
    /\ LET e == EffectIds[Cardinality(created) + 1]
           st == connectedCallback(CompPage, e)
       IN /\ CompCommit(st)
          /\ created' = IF st.threw THEN created ELSE created \cup {e}
    /\ lastComp' = [op |-> "connect", index |-> 0, pre |-> comp]
    /\ compOps' = compOps - 1
    /\ CompUnchanged

\* the element is removed from the document
Disconnect ==
    /\ compOps > 0
    /\ comp.mounted
    /\ CompCommit(disconnectedCallback(CompPage))
    /\ lastComp' = [op |-> "disconnect", index |-> 0, pre |-> comp]
    /\ compOps' = compOps - 1
    /\ UNCHANGED created
    /\ CompUnchanged

\* an event handler calls the state function of states[i] with value
WriteState(i, value) ==
    /\ compOps > 0
    /\ i <= Len(comp.states)
    /\ CompCommit(SetTrap(CompPage, comp.states[i].state, "value", value))
    /\ lastComp' = [op |-> "write", index |-> i, pre |-> comp]
    /\ compOps' = compOps - 1
    /\ UNCHANGED created
    /\ CompUnchanged

\* code that is neither setup nor a render function calls useState
UseStateOutside ==
    /\ compOps > 0
    /\ CompCommit(useState(CompPage, "0"))
    /\ lastComp' = [op |-> "useState", index |-> 0, pre |-> comp]
    /\ compOps' = compOps - 1
    /\ UNCHANGED created
    /\ CompUnchanged

\* the microtask of queueJob runs
Flush ==
    /\ microtasks > 0
    /\ CompCommit(flush(CompPage))
    /\ lastComp' = [op |-> "flush", index |-> 0, pre |-> comp]
    /\ UNCHANGED <<created, compOps>>
    /\ CompUnchanged

CompNext ==
    \/ Connect
    \/ Disconnect
    \/ \E i \in 1..Len(StateObjs) : \E value \in Prim : WriteState(i, value)
    \/ UseStateOutside
    \/ Flush

CompSpec == CompInit /\ [][CompNext]_vars

\* ------------------------------------------------------------ properties
WriteOps == {"set"} \cup arrayMethods
FlushOver == last.op \in {"flushEnd", "abort"}
Queued == SeqToSet(updateQueue)
OnStack == {stack[i].eff : i \in 1..Len(stack)}

\* the dependency keys a run that read the properties rs has: a read of any
\* property of an array also reads the array as a whole
KeysRead(rs) == rs \cup {<<r[1], ARRAY>> : r \in {x \in rs : x[1] \in ArrObj}}
Triggered == {last.trig[i] : i \in 1..Len(last.trig)}

\* C1: batching law: in the flush that follows a cycle of writes, every
\* effect that was in the dependency set of a triggered (target, key) is
\* executed exactly once and no other effect is executed, however many
\* writes there were.
BatchingLaw ==
    FlushOver => \A e \in Effect : hist.runs[e] = IF e \in hist.cyc.expect THEN 1 ELSE 0

\* the batching law for the flushes in which no job throws
BatchingWhenCompleted ==
    last.op = "flushEnd" =>
        \A e \in Effect : hist.runs[e] = IF e \in hist.cyc.expect THEN 1 ELSE 0

SnapshotRunsToCompletion ==
    FlushOver => \A i \in 1..Len(jobs) : hist.runs[jobs[i]] >= 1

\* C4: re-entrant scheduling: an effect scheduled while a flush runs is not
\* executed inside the write, it is in the pending set with a new flush
\* arranged, and it is executed in that later flush.
ReentrantNotLost ==
    /\ ctx = "flush" /\ last.op \in WriteOps =>
           /\ last.ran = <<>>
           /\ SeqToSet(last.qlog) \subseteq Queued
           /\ last.qlog # <<>> => isFlushPending /\ microtasks = 1
    /\ FlushOver => \A e \in hist.cyc.reent : hist.runs[e] >= 1

\* the same, the execution in the later flush required only if no job throws
ReentrantWhenCompleted ==
    /\ ctx = "flush" /\ last.op \in WriteOps =>
           /\ last.ran = <<>>
           /\ SeqToSet(last.qlog) \subseteq Queued
           /\ last.qlog # <<>> => isFlushPending /\ microtasks = 1
    /\ last.op = "flushEnd" => \A e \in hist.cyc.reent : hist.runs[e] >= 1

\* C5: a flush executes each effect of its snapshot exactly once, in the
\* order of the first queueJob call of the cycle.
FlushOrder ==
    /\ ctx = "flush" => jobs = hist.cyc.order
    /\ FlushOver => hist.ran = jobs

\* the same for the flushes in which no job throws
FlushOrderWhenCompleted ==
    /\ ctx = "flush" => jobs = hist.cyc.order /\ hist.ran = SubSeq(jobs, 1, jobIdx - 1)
    /\ last.op = "flushEnd" => hist.ran = jobs

\* C6: a write through a proxy enters no effect function: the effects it
\* notifies are in the pending set and a flush is arranged; effect functions
\* are entered only by the flush and by explicit calls of the user code.
WriteOnlyEnqueues ==
    /\ last.op \in WriteOps =>
           /\ last.ran = <<>>
           /\ SeqToSet(last.qlog) \subseteq Queued
           /\ last.qlog # <<>> => isFlushPending /\ microtasks = 1
    /\ last.ran # <<>> => last.op \in {"job", "run", "effect"}

\* a write scheduled an effect and did not run it
EnqueuedWitness ==
    /\ last.op = "set"
    /\ last.qlog # <<>>
    /\ SeqToSet(last.qlog) \cap OnStack = {}
    /\ ctx = "host"

\* C7: wrapper identity: no raw object ever has two proxies; reactive(x)
\* returns the proxy x already had, reactive(proxy) returns the proxy, and a
\* read of a property holding a raw object returns that object's one proxy.
WrapperIdentity ==
    /\ \A i, j \in 1..Len(proxies) : proxies[i] = proxies[j] => i = j
    /\ \A o \in RawObj : reactiveMap[o] # Null => proxies[ProxyIndex(reactiveMap[o])] = o
    /\ last.op = "reactive" =>
           IF last.target \in ProxyId THEN last.ret = last.target
           ELSE /\ last.ret \in ProxyId
                /\ last.ret = reactiveMap[last.target]
                /\ last.old # Null => last.ret = last.old
    /\ last.op = "get" /\ RawGet(Lib, last.target, last.key) \in RawObj =>
           /\ last.ret \in ProxyId
           /\ last.ret = reactiveMap[RawGet(Lib, last.target, last.key)]

\* reactive(x) was called on a raw object that had a proxy, after a read
\* through its parent had returned that proxy
RewrapWitness ==
    /\ last.op = "reactive"
    /\ last.target \in RawObj \ {"S"}
    /\ last.old # Null
    /\ last.ret = last.old
    /\ parentMap[last.target] # <<>>

\* C8: round trip: after proxy.key = value the raw object holds value, and
\* reading proxy.key yields value, or the one proxy of value if value is an
\* object.
RoundTrip ==
    last.op = "set" =>
        /\ RawGet(Lib, last.target, last.key) = last.value
        /\ LET g == GetTrap(Lib, last.target, last.key)
           IN IF last.value \in RawObj
              THEN /\ g.ret \in ProxyId
                   /\ g.proxies[ProxyIndex(g.ret)] = last.value
                   /\ reactiveMap[last.value] # Null => g.ret = reactiveMap[last.value]
              ELSE g.ret = last.value

\* an object was written over the same object, which has a proxy
RoundTripWitness ==
    /\ last.op = "set"
    /\ last.value \in RawObj
    /\ last.old = last.value
    /\ reactiveMap[last.value] # Null

\* C9: change detection: writing the primitive the property already holds
\* schedules nothing; writing another primitive, or any object, schedules
\* every effect of the dependency set of (target, key) but the executing one.
ChangeDetection ==
    last.op = "set" =>
        LET deps == SeqToSet(DepsOf(targetMap, last.target, last.key)) \ {last.by}
        IN IF ~IsObject(last.value) /\ last.old = last.value
           THEN last.qlog = <<>>
           ELSE deps \subseteq SeqToSet(last.qlog) /\ deps \subseteq Queued

\* the object already stored was written again and an effect was scheduled
SameObjectWitness ==
    /\ last.op = "set"
    /\ IsObject(last.value)
    /\ last.old = last.value
    /\ SeqToSet(DepsOf(targetMap, last.target, last.key)) \ {last.by} # {}
    /\ last.qlog # <<>>

\* the effects that read the length or an index of the array in their latest run
ArrayReaders ==
    {e \in created : \E r \in hist.reads[e] :
        r[1] \in ArrObj /\ r[2] \in {"length"} \cup Index(MaxLen)}

\* C10, as claimed: a mutating method called through the array's proxy is
\* applied to the raw array and schedules every effect that read the length
\* or an index through the proxy in its latest run; so does a write of the
\* length that changes it.
ArrayMutationAsClaimed ==
    /\ last.op \in arrayMethods =>
           /\ list = ApplyMethod(last.old, last.op, last.value)
           /\ ArrayReaders \subseteq Queued
    /\ last.op = "set" /\ last.target \in ArrObj /\ last.key = "length"
           /\ last.old # last.value => ArrayReaders \subseteq Queued

\* C10, amended: the same for every such effect but the one executing the
\* call, which is not scheduled.
ArrayMutation ==
    /\ last.op \in arrayMethods =>
           /\ list = ApplyMethod(last.old, last.op, last.value)
           /\ ArrayReaders \ {last.by} \subseteq Queued
    /\ last.op = "set" /\ last.target \in ArrObj /\ last.key = "length"
           /\ last.old # last.value => ArrayReaders \ {last.by} \subseteq Queued

\* a method call scheduled an effect that had read an index and not the length
IndexReaderWitness ==
    /\ last.op \in arrayMethods
    /\ \E e \in ArrayReaders \ {last.by} :
           /\ <<last.target, "length">> \notin hist.reads[e]
           /\ e \in SeqToSet(last.qlog)

\* the objects reached through a property of the state object
Nested == objs \ {"S"}

\* C11, as claimed: a write through the wrappers that changes a property of
\* a nested object schedules every effect that read that property through
\* the wrappers in its latest run.
DeepReactivityAsClaimed ==
    last.op = "set" /\ last.target \in Nested /\ Changed(last.old, last.value) =>
        \A e \in created :
            <<last.target, last.key>> \in hist.reads[e] => e \in Queued

\* C11, amended: the same for every such effect but the one executing the
\* write.
DeepReactivity ==
    last.op = "set" /\ last.target \in Nested /\ Changed(last.old, last.value) =>
        \A e \in created \ {last.by} :
            <<last.target, last.key>> \in hist.reads[e] => e \in Queued

DeepWitness ==
    /\ last.op = "set"
    /\ last.target \in Nested
    /\ last.old # last.value
    /\ \E e \in created \ {last.by} :
           /\ <<last.target, last.key>> \in hist.reads[e]
           /\ e \in SeqToSet(last.qlog)

\* the dependency sets an effect is a member of
MemberOf(e) ==
    {tk \in UNION {{t} \X DOMAIN targetMap[t] : t \in DOMAIN targetMap} :
        e \in SeqToSet(targetMap[tk[1]][tk[2]])}

\* C12: effect(fn), and every later call of the function it returns, calls fn
\* once, with the effect installed as currentEffect from a clean set of
\* dependencies; while fn runs, the effect whose fn is running is
\* currentEffect, every property read through a proxy is recorded for it, and
\* when fn has ended the previous currentEffect is back.
EffectRuns ==
    /\ currentEffect = IF stack = <<>> THEN Null ELSE Top.eff
    /\ last.op \in {"effect", "run", "job"} =>
           /\ last.ran = <<last.target>>
           /\ Top = Frame(last.target, last.by)
           /\ effDeps[last.target] = <<>>
           /\ MemberOf(last.target) = {}
    /\ last.op = "get" /\ last.by # Null =>
           /\ <<last.target, last.key>> \in MemberOf(last.by)
           /\ <<last.target, last.key>> \in SeqToSet(effDeps[last.by])
    /\ \A e \in created : MemberOf(e) = KeysRead(hist.reads[e])

LaterRunWitness ==
    /\ last.op = "get"
    /\ last.by # Null
    /\ hist.past[last.by] # {}
    /\ <<last.target, last.key>> \notin hist.past[last.by]

\* C13: self-notification suppression: a write made while an effect is
\* executing does not hand that effect to queueJob; a write that notifies,
\* made by anyone else, to a property the effect read in its latest run does.
SelfSuppression ==
    /\ last.op \in WriteOps /\ last.by # Null => last.by \notin SeqToSet(last.qlog)
    /\ last.op = "set" /\ Changed(last.old, last.value) =>
           \A e \in created \ {last.by} :
               <<last.target, last.key>> \in hist.reads[e] =>
                   e \in SeqToSet(last.qlog)

SelfWriteWitness ==
    /\ last.op = "set"
    /\ last.by # Null
    /\ last.old # last.value
    /\ <<last.target, last.key>> \in hist.reads[last.by]
    /\ last.qlog # <<>>

FlushFlagAsClaimed ==
    /\ microtasks <= 1
    /\ updateQueue # <<>> => microtasks = 1
    /\ last.op = "abort" => ~isFlushPending

\* C30, amended: at most one flush is outstanding, a flush is outstanding
\* whenever the pending set is not empty, and isFlushPending is true exactly
\* while a flush is outstanding: after a flush in which an effect threw it
\* is false unless an effect was scheduled during that flush, and the next
\* queueJob of an empty pending set arranges a flush.
FlushFlag ==
    /\ microtasks <= 1
    /\ updateQueue # <<>> => microtasks = 1
    /\ isFlushPending <=> microtasks = 1
    /\ last.op = "abort" /\ updateQueue = <<>> => ~isFlushPending
    /\ last.op \in WriteOps /\ last.qlog # <<>> => isFlushPending /\ microtasks = 1

\* an effect was scheduled after a flush in which an effect threw, and a
\* flush was arranged for it
FlushAfterAbortWitness ==
    /\ last.op = "abort"
    /\ ~isFlushPending
    /\ hist.ran # <<>>
    /\ LET st == queueJob(Lib, "e1")
       IN st.isFlushPending /\ st.microtasks = 1

\* ------------------------------------------- properties of the engine
\* the last step was a call of render that returned
Rendered == lastRender.op = "render" /\ ~lastRender.threw
\* the instance of the container before and after the last step
InstBefore == lastRender.pre.nodes[Container].inst
InstNow == nodes[Container].inst
\* the container held an instance built from the strings of the result
SameStrings ==
    /\ InstBefore # 0
    /\ lastRender.pre.instances[InstBefore].strings = lastRender.result.s
\* the part of that instance, and the children of its node, before and after
PartBefore == lastRender.pre.instances[InstBefore].part
PartNow == instances[InstBefore].part
KidsBefore == lastRender.pre.nodes[PartBefore.node].kids
KidsNow == nodes[PartNow.node].kids
\* the nodes that did not exist before the last step
IsNew(n) == n > Len(lastRender.pre.nodes)

\* the part holds the value it was given: that value, or the list with the
\* same elements it held before (setValue keeps the older array object)
Holds(held, given) ==
    \/ held = given
    \/ held.t = "Array" /\ given.t = "Array" /\ arraysEqual(held.vs, given.vs)

\* C14: render(result, container): with an instance built from the same
\* strings in the container, that instance and the container's children are
\* kept and the part gets the new value; otherwise the container's content
\* is replaced by the mounted fragment of a new instance for the strings of
\* the result, whose part got the value.
RenderContract ==
    Rendered =>
        IF SameStrings
        THEN /\ InstNow = InstBefore
             /\ nodes[Container].kids = lastRender.pre.nodes[Container].kids
             /\ instances[InstNow].strings = lastRender.result.s
             /\ Holds(PartNow.value, lastRender.result.vs[1])
        ELSE /\ InstNow = Len(lastRender.pre.instances) + 1
             /\ instances[InstNow].strings = lastRender.result.s
             /\ instances[InstNow].container = Container
             /\ instances[InstNow].part.value = lastRender.result.vs[1]
             /\ Len(nodes[Container].kids) = 1
             /\ IsNew(nodes[Container].kids[1])
             /\ nodes[nodes[Container].kids[1]].tag = Site(lastRender.result.s).tag
             /\ instances[InstNow].fragment = <<>>

RerenderWitness ==
    /\ Rendered
    /\ SameStrings
    /\ lastRender.commits > 0
    /\ PartNow.value # PartBefore.value

\* C15: idempotence: a call of render with the result the container's
\* instance was last given commits no part.
RenderIdempotent ==
    Rendered /\ SameStrings /\ PartBefore.value = lastRender.result.vs[1] =>
        lastRender.commits = 0

\* the same for every value but NaN
RenderIdempotentButNaN ==
    Rendered /\ SameStrings /\ PartBefore.value = lastRender.result.vs[1] =>
        lastRender.commits = 0 \/ lastRender.result.vs[1] = NaN

\* C16: template cache: at most one Template is ever constructed for one
\* strings array, the cache holds it from then on, and no step changes a
\* cached Template.
TemplateCacheOnce ==
    \A s \in Strings :
        /\ built[s] <= 1
        /\ templateCache[s] = IF built[s] = 0 THEN NoTemplate ELSE Template(s)
        /\ lastRender.pre.templateCache[s] # NoTemplate =>
               templateCache[s] = lastRender.pre.templateCache[s]

CachedTemplateWitness ==
    /\ Rendered
    /\ \E i \in (Len(lastRender.pre.instances) + 1)..Len(instances) :
           lastRender.pre.templateCache[instances[i].strings] # NoTemplate

\* the last step reconciled a list over the list the slot showed
ListOverList ==
    /\ Rendered
    /\ SameStrings
    /\ PartBefore.value.t = "Array"
    /\ lastRender.result.vs[1].t = "Array"
    /\ PartBefore.cached = PartBefore.value.vs
    /\ Len(KidsBefore) = Len(PartBefore.value.vs)
OldList == PartBefore.value.vs
NewList == lastRender.result.vs[1].vs

\* C17: list diff minimality: when the new list differs from the rendered one
\* in one item, whose strings are the same and whose values differ, the
\* children of the slot are the same nodes as before: none is removed or
\* created.
ListDiffMinimal ==
    /\ ListOverList
    /\ Len(NewList) = Len(OldList)
    /\ \E k \in 1..Len(NewList) :
           /\ ChangedItems(NewList, OldList) = {k}
           /\ NewList[k].t = "TemplateResult"
           /\ OldList[k].t = "TemplateResult"
           /\ NewList[k].s = OldList[k].s
    => KidsNow = KidsBefore

\* the new list only grows or shrinks the rendered one
Resized ==
    /\ ListOverList
    /\ Len(NewList) # Len(OldList)
    /\ \A i \in 1..Min(Len(NewList), Len(OldList)) : itemsEqual(NewList[i], OldList[i])
\* one child per entry; the old children kept, new ones appended or the
\* trailing ones removed
ResizedInPlace ==
    /\ Len(KidsNow) = Len(NewList)
    /\ \A i \in 1..Min(Len(NewList), Len(OldList)) : KidsNow[i] = KidsBefore[i]
    /\ \A i \in (Len(OldList) + 1)..Len(NewList) : IsNew(KidsNow[i])

\* list growth and shrinkage on every path, the bulk ones included
ListResizeAsClaimed == Resized => ResizedInPlace

\* C18: list growth and shrinkage: a list reconciled on the per-index path
\* over a rendered list with the same common prefix leaves one child per
\* entry, keeps the children of the common prefix and appends or removes the
\* difference.
ListResize ==
    Resized /\ ListPath(NewList, OldList) = "diff" => ResizedInPlace

\* the same for the lists whose appended items are texts or results of a
\* template that is one element without white space around it
ListResizeOneNode ==
    /\ Resized
    /\ ListPath(NewList, OldList) = "diff"
    /\ \A i \in (Len(OldList) + 1)..Len(NewList) :
           NewList[i].t = "TemplateResult" => ~Site(NewList[i].s).pad
    => ResizedInPlace

GrowWitness ==
    /\ Resized
    /\ ListPath(NewList, OldList) = "diff"
    /\ Len(NewList) > Len(OldList)
    /\ Len(OldList) > 0

\* C19: a step of a chunked render whose slot has committed a newer value
\* writes nothing: no node and no part changes.
StaleStepWritesNothing ==
    /\ lastRender.op = "step"
    /\ lastRender.pre.instances[lastRender.job.self].part.commits > lastRender.job.commits
    => /\ nodes = lastRender.pre.nodes
       /\ instances = lastRender.pre.instances

\* the same when the newer value is another list rendered in chunks
StaleStepCancelledByChunk ==
    /\ lastRender.op = "step"
    /\ lastRender.pre.nodes[lastRender.job.node].token # lastRender.job.token
    => /\ nodes = lastRender.pre.nodes
       /\ instances = lastRender.pre.instances

\* C20: render called with a value that is no template result throws and
\* changes neither a node nor an instance nor the cache.
RenderRejects ==
    lastRender.op = "render" /\ lastRender.result.t # "TemplateResult" =>
        /\ lastRender.threw
        /\ nodes = lastRender.pre.nodes
        /\ instances = lastRender.pre.instances
        /\ templateCache = lastRender.pre.templateCache

RejectWitness ==
    /\ lastRender.op = "render"
    /\ lastRender.result.t # "TemplateResult"
    /\ lastRender.threw
    /\ InstBefore # 0
    /\ nodes[Container].kids # <<>>

\* the element k shows the list item: a text node with its string form, or
\* the element of the item's template around the text of its value
ShowsItem(k, item) ==
    IF item.t = "TemplateResult"
    THEN /\ nodes[k].tag = Site(item.s).tag
         /\ Len(nodes[k].kids) = 1
         /\ nodes[nodes[k].kids[1]].text = ToText(item.vs[1])
    ELSE nodes[k].tag = "#text" /\ nodes[k].text = ToText(item)
\* the children of n are the rendered items of l, one each, in order
ShowsList(n, l) ==
    /\ Len(nodes[n].kids) = Len(l)
    /\ \A i \in 1..Len(l) : ShowsItem(nodes[n].kids[i], l[i])

\* the value handed to the slot by the last call of render
Given == lastRender.result.vs[1]
\* the slot held a list whose snapshot the part had taken, and gets a list
ListAgain ==
    /\ Rendered
    /\ SameStrings
    /\ PartBefore.value.t = "Array"
    /\ PartBefore.source = PartBefore.value
    /\ Given.t = "Array"

\* C25: a content slot holding a list commits a new list value if and only
\* if its elements differ from those last committed; rendering the same
\* array object after it was mutated in place shows the new elements.
ListCommit ==
    ListAgain =>
        /\ PartNow.commits > PartBefore.commits <=> ~arraysEqual(Given.vs, PartBefore.cached)
        /\ Given.s = "M" /\ PartBefore.value.s = "M" => ShowsList(PartNow.node, Given.vs)

\* the same when the new list is another array object than the one held
ListCommitWhenReplaced ==
    ListAgain /\ ~(Given.s = "M" /\ PartBefore.value.s = "M") =>
        PartNow.commits > PartBefore.commits <=> ~arraysEqual(Given.vs, PartBefore.cached)

\* C26: when the slot's value goes from a list to a value that is no list
\* and then to a list with the same elements, the second list is rendered in
\* full: the snapshot of the first does not suppress it.
SnapshotFollowsNode ==
    /\ Rendered
    /\ SameStrings
    /\ PartBefore.value.t \notin {"Array", "undefined"}
    /\ PartBefore.cached # <<>>
    /\ Given.t = "Array"
    /\ arraysEqual(Given.vs, PartBefore.cached)
    => ShowsList(PartNow.node, Given.vs)

\* C27: when the slot's value changes from a text, a markup string or a
\* nested template to a list, the children of the slot are exactly the
\* rendered items and the slot's node keeps no nested instance.
NoResidue ==
    /\ Rendered
    /\ SameStrings
    /\ PartBefore.value.t \notin {"Array", "undefined"}
    /\ PartBefore.cached = <<>>
    /\ Given.t = "Array"
    => /\ nodes[PartNow.node].inst = 0
       /\ ListPath(Given.vs, <<>>) # "chunk" => ShowsList(PartNow.node, Given.vs)

\* the items of l that are template results have templates of one element
\* without white space around it
OneNodeItems(l) ==
    \A i \in 1..Len(l) : l[i].t = "TemplateResult" => ~Site(l[i].s).pad

\* the same when the earlier value was a text without markup: the list gets
\* a new element of its own (the items shown one child each when their
\* templates are of one node)
NoResidueAfterText ==
    /\ Rendered
    /\ SameStrings
    /\ PartBefore.value.t \in {"string", "number"}
    /\ ~isHTMLString(PartBefore.value)
    /\ PartBefore.cached = <<>>
    /\ Given.t = "Array"
    => /\ nodes[PartNow.node].inst = 0
       /\ ListPath(Given.vs, <<>>) # "chunk" /\ OneNodeItems(Given.vs)
              => ShowsList(PartNow.node, Given.vs)

\* ---------------------------------- properties of the slots in a tag
\* the attribute the claim expects of a committed value: presence only for
\* true, none for false, null and undefined, else the string form
Expected(value) ==
    IF value = TrueV THEN Attr("")
    ELSE IF value = FalseV \/ value.t \in {"null", "undefined"} THEN NoAttr
    ELSE Attr(String(value))

\* C22, as claimed: on whatever element, the attribute of a generic slot
\* is the one expected of the value last committed to it.
AttributeAsClaimed ==
    \A el \in Elements :
        slotPage.attrs[el]["title"] = Expected(slotPage.parts[el]["title"].value)

\* C22, amended: so it is on an element whose tag name has no hyphen; on a
\* custom element null and undefined leave the attribute absent, and any
\* other value, true and false included, is registered under a new prop id
\* on the element and leaves the attribute set to that id.
AttributeCommit ==
    /\ \A el \in Elements :
          LET value == slotPage.parts[el]["title"].value
              attr == slotPage.attrs[el]["title"]
          IN IF ~isCustomElement(el) \/ value.t \in {"null", "undefined"}
             THEN attr = Expected(value)
             ELSE /\ attr # NoAttr
                  /\ \E n \in 0..(slotPage.propIdCounter - 1) : attr = Attr(PropId(n))
                  /\ \E r \in slotPage.propsStore[el] :
                         attr = Attr(r.propId) /\ r.value = value
    /\ /\ lastSlot.op = "update"
       /\ lastSlot.name = "title"
       /\ lastSlot.commits > 0
       /\ isCustomElement(lastSlot.el)
       /\ lastSlot.value.t \notin {"null", "undefined"}
       => /\ slotPage.attrs[lastSlot.el]["title"] = Attr(PropId(lastSlot.pre.propIdCounter))
          /\ slotPage.propIdCounter = lastSlot.pre.propIdCounter + 1

\* false was committed to the slot of the custom element after another
\* value, and the attribute holds the id of a prop
CustomElementWitness ==
    /\ lastSlot.op = "update"
    /\ lastSlot.name = "title"
    /\ lastSlot.el = "X-ITEM"
    /\ lastSlot.value = FalseV
    /\ lastSlot.commits = 1
    /\ lastSlot.pre.attrs["X-ITEM"]["title"] # NoAttr
    /\ slotPage.attrs["X-ITEM"]["title"] = Attr(PropId(slotPage.propIdCounter - 1))
    /\ slotPage.attrs["DIV"]["title"] = Attr("")

\* C23: after any sequence of updates of an event slot, the listeners the
\* part installed on the element are the value last committed if it is a
\* function, and none if it is not.
EventListener ==
    \A el \in Elements :
        LET part == slotPage.parts[el]["onclick"]
        IN /\ Cardinality(slotPage.listeners[el]) <= 1
           /\ slotPage.listeners[el] = IF part.value.t = "function" THEN {part.value} ELSE {}
           /\ part.listener = IF part.value.t = "function" THEN part.value ELSE NoListener

\* a handler replaced another one, and a value that is no function had
\* removed one before on the other element
ListenerReplacedWitness ==
    /\ lastSlot.op = "update"
    /\ lastSlot.name = "onclick"
    /\ lastSlot.value \in Funcs
    /\ lastSlot.pre.parts[lastSlot.el]["onclick"].listener \in Funcs \ {lastSlot.value}
    /\ slotPage.listeners[lastSlot.el] = {lastSlot.value}

\* ----------------------------------------- properties of the components
\* the executions of setup and of the render function in the last call
SetupsNow == comp.setupRuns - lastComp.pre.setupRuns
RendersNow == comp.renderRuns - lastComp.pre.renderRuns

\* C21: useState called while no context is active throws, makes no state
\* and leaves the state index alone; in a context, the k-th call of every
\* setup or render pass of the instance returns the state function that the
\* first k-th call made.
UseStateContract ==
    /\ comp.currentComponentStates = Null
    /\ lastComp.op = "useState" =>
           /\ comp.threw
           /\ comp.states = lastComp.pre.states
           /\ comp.nextFunc = lastComp.pre.nextFunc
           /\ comp.currentStateIndex = lastComp.pre.currentStateIndex
           /\ comp.passes = <<>>
    /\ Len(proxies) = Len(comp.states)
    /\ \A p \in 1..Len(comp.passes) :
           /\ Len(comp.passes[p]) <= Len(comp.first)
           /\ \A k \in 1..Len(comp.passes[p]) :
                  /\ comp.passes[p][k] = comp.first[k]
                  /\ comp.passes[p][k] = comp.states[k].func
    /\ \A j, k \in 1..Len(comp.states) : comp.states[j].func = comp.states[k].func => j = k

\* a flush ran a render pass, not the first one, whose second call of
\* useState returned the function a render pass had made
LaterPassWitness ==
    /\ lastComp.op = "flush"
    /\ lastComp.pre.renderRuns >= 1
    /\ comp.program.ns = 1
    /\ comp.passes # <<>>
    /\ Len(comp.passes[1]) = 2
    /\ comp.passes[1][2] = comp.first[2]

SingleSubscription ==
    /\ \A i \in 1..Len(comp.states) :
           Len(DepsOf(targetMap, comp.states[i].state, "value")) <= 1
    /\ lastComp.op = "flush" /\ lastComp.pre.mounted => RendersNow = 1

\* the same for a component that was connected once
SingleSubscriptionFirstConnect ==
    Cardinality(created) <= 1 =>
        /\ \A i \in 1..Len(comp.states) :
               Len(DepsOf(targetMap, comp.states[i].state, "value")) <= 1
        /\ lastComp.op = "flush" /\ lastComp.pre.mounted => RendersNow = 1

\* ------------------------------------- properties of the marker and of reads
\* the frames of the executing effect functions are nested: each keeps as
\* prevEffect the effect of the frame below, the outermost one keeps null
FramesNested ==
    \A i \in 1..Len(stack) :
        stack[i].prev = IF i = 1 THEN Null ELSE stack[i - 1].eff

\* C31: currentEffect is restored when an effect function ends, by return or
\* by exception: it is always the effect of the innermost running frame, the
\* one each frame kept as prevEffect being the effect of the frame below, and
\* null when no frame is left.  So a read made by an outer effect after a
\* nested one returned is recorded for the outer effect, and a read made while
\* no effect is executing finds currentEffect null and adds no effect to any
\* dependency set.
MarkerRestored ==
    /\ FramesNested
    /\ currentEffect = IF stack = <<>> THEN Null ELSE Top.eff
    /\ last.op = "get" /\ last.by # Null =>
           /\ stack # <<>> /\ last.by = Top.eff
           /\ <<last.target, last.key>> \in MemberOf(last.by)
           /\ <<last.target, last.key>> \in SeqToSet(effDeps[last.by])
    /\ last.op = "get" /\ last.by = Null =>
           /\ stack = <<>>
           /\ \A e \in created : MemberOf(e) = KeysRead(hist.reads[e])

\* the first effect, still executing, made a read after the second effect,
\* created inside it, had returned without reading anything
OuterReadWitness ==
    /\ last.op = "get"
    /\ last.by = "e1"
    /\ stack = <<Frame("e1", Null)>>
    /\ "e2" \in created
    /\ hist.reads["e2"] = {} /\ hist.past["e2"] = {}
    /\ <<last.target, last.key>> \in MemberOf("e1")
    /\ MemberOf("e2") = {}

\* C36: a read through a proxy while no effect is executing leaves the
\* dependency graph as it was: no dependency set is created, none gets a
\* member, no effect's deps list grows, and currentEffect stays null; the read
\* returns the value the property holds, a nested object as its one proxy.
ReadOutsideEffect ==
    [][last'.op = "get" /\ currentEffect = Null =>
           /\ targetMap' = targetMap
           /\ effDeps' = effDeps
           /\ currentEffect' = Null
           /\ rec' = rec /\ list' = list
           /\ LET value == RawGet(Lib, last'.target, last'.key)
              IN last'.ret = IF value \in RawObj THEN reactiveMap'[value] ELSE value]_vars

\* with an effect in existence, the host read a property that has no
\* dependency set and holds a nested object
ReadOutsideWitness ==
    /\ last.op = "get"
    /\ last.by = Null
    /\ created # {}
    /\ ~(MapHas(targetMap, last.target) /\ MapHas(targetMap[last.target], last.key))
    /\ last.ret \in ProxyId


\* the parent edge recorded for an object, as a list of the one (target, key)
\* to notify, and the effects in the dependency set of that edge
ParentEdge(o) == IF parentMap[o] # <<>> THEN <<parentMap[o]>> ELSE <<>>
ParentDeps(o) ==
    IF parentMap[o] # <<>>
    THEN SeqToSet(DepsOf(targetMap, parentMap[o][1], parentMap[o][2]))
    ELSE {}
\* the last step was a write that notifies, or a mutating method call, on an
\* object with a parent edge
NotifiesParent ==
    /\ \/ last.op = "set" /\ Changed(last.old, last.value)
       \/ last.op \in arrayMethods
    /\ last.target \in Nested
    /\ parentMap[last.target] # <<>>

ParentFollowsReads ==
    LET value == RawGet(Lib, last'.target, last'.key)
    IN IF last'.op = "get" /\ value \in RawObj
       THEN parentMap' = [parentMap EXCEPT ![value] = <<last'.target, last'.key>>]
       ELSE parentMap' = parentMap

\* what a write or a method call triggers, in order: the written key (the
\* array as a whole after a write of length), or the array as a whole and its
\* length, and then the one parent edge of the object written, if it has one
ParentNotified ==
    /\ last.op = "set" /\ Changed(last.old, last.value) =>
           last.trig = <<<<last.target, last.key>>>>
                       \o (IF last.target \in ArrObj /\ last.key = "length"
                           THEN <<<<last.target, ARRAY>>>> ELSE <<>>)
                       \o ParentEdge(last.target)
    /\ last.op \in arrayMethods =>
           last.trig = <<<<last.target, ARRAY>>, <<last.target, "length">>>>
                       \o ParentEdge(last.target)
    /\ NotifiesParent =>
           /\ ParentDeps(last.target) \ {last.by} \subseteq SeqToSet(last.qlog)
           /\ ParentDeps(last.target) \ {last.by} \subseteq Queued

Tokens == 1..RenderOps
\* the waiting step callbacks of the job with this token
Waiting(tok) == {j \in 1..Len(chunkJobs) : chunkJobs[j].token = tok}
\* no newer value was committed to the job's part and its node holds its token,
\* in the state given by its nodes and instances
LiveIn(job, ns, is) ==
    /\ ns[job.node].token = job.token
    /\ is[job.self].part.commits = job.commits
\* the job with this token waits for a callback and is not superseded
Pending(tok) == \E j \in Waiting(tok) : LiveIn(chunkJobs[j], nodes, instances)
\* it waits and was superseded
Superseded(tok) == \E j \in Waiting(tok) : ~LiveIn(chunkJobs[j], nodes, instances)
\* the last step was a slice of a job that was not superseded
LiveSlice == lastRender.op = "step" /\ LiveIn(lastRender.job, lastRender.pre.nodes, lastRender.pre.instances)
\* its last callback has run: every item is a child of the node, once and in
\* index order, and the part's snapshot is the list
Completed(tok) ==
    /\ LiveSlice
    /\ lastRender.job.token = tok
    /\ Waiting(tok) = {}
    /\ ShowsList(lastRender.job.node, lastRender.job.newArray.vs)
    /\ instances[lastRender.job.self].part.cached = lastRender.job.newArray.vs
    /\ instances[lastRender.job.self].part.source = lastRender.job.newArray

\* what one slice of a job that is not superseded does: the node held the
\* first i items; the slice appends the next ones in index order, at least one
\* and at most CHUNK_SIZE, and keeps the children it found; the snapshot is
\* written by the slice that appends the last item and by no earlier one, which
\* asks for one more callback instead
SliceContract ==
    LiveSlice =>
        LET job == lastRender.job
            l == job.newArray.vs
            kidsBefore == lastRender.pre.nodes[job.node].kids
            kidsNow == nodes[job.node].kids
            partBefore == lastRender.pre.instances[job.self].part
            partNow == instances[job.self].part
        IN /\ Len(kidsBefore) = job.i
           /\ Len(kidsNow) - job.i \in 1..CHUNK_SIZE
           /\ Len(kidsNow) <= Len(l)
           /\ SubSeq(kidsNow, 1, job.i) = kidsBefore
           /\ \A k \in 1..Len(kidsNow) : ShowsItem(kidsNow[k], l[k])
           /\ \A k \in (job.i + 1)..Len(kidsNow) : IsNew(kidsNow[k])
           /\ IF Len(kidsNow) = Len(l)
              THEN /\ partNow.cached = l
                   /\ partNow.source = job.newArray
                   /\ Waiting(job.token) = {}
              ELSE /\ partNow.cached = partBefore.cached
                   /\ partNow.source = partBefore.source
                   /\ partNow.source # job.newArray
                   /\ \E j \in Waiting(job.token) : chunkJobs[j].i = Len(kidsNow)

\* C32: a time-sliced render that is not superseded terminates, the host
\* delivering its callbacks with time for at least one item: every slice
\* keeps to the contract above, and a job that waits for a callback is in the
\* end completed, with every item appended once and in order and the snapshot
\* written, unless a newer value superseded it first.
ChunkedRenderTerminates ==
    /\ []SliceContract
    /\ \A tok \in Tokens : Pending(tok) ~> (Completed(tok) \/ Superseded(tok))

\* the last of several slices of a list of CHUNK_THRESHOLD items ran, and no
\* call of render is left that could supersede anything
SlicedWitness ==
    /\ \E tok \in Tokens : Completed(tok)
    /\ lastRender.job.i > 0
    /\ Len(lastRender.job.newArray.vs) >= CHUNK_THRESHOLD
    /\ chunkJobs = <<>>


\* ----------------------------------- properties of a replaced list item
\* the last step reconciled over the rendered list a list of the same length
\* that differs from it at index k alone, the item there being of another
\* descriptor: a result of other strings, or a result for a text
Mismatch(k) ==
    /\ ListOverList
    /\ ListPath(NewList, OldList) = "diff"
    /\ Len(NewList) = Len(OldList)
    /\ ChangedItems(NewList, OldList) = {k}
    /\ NewList[k].t = "TemplateResult"
    /\ OldList[k].t = "TemplateResult" => NewList[k].s # OldList[k].s
\* the node k is the item as render(item, tempContainer) shows it: a value
\* with markup is the content of a <span> in the item's element
ShowsRendered(k, item) ==
    IF item.t = "TemplateResult" /\ isHTMLString(item.vs[1])
    THEN /\ nodes[k].tag = Site(item.s).tag
         /\ Len(nodes[k].kids) = 1
         /\ nodes[nodes[k].kids[1]].tag = "span"
         /\ Len(nodes[nodes[k].kids[1]].kids) = 1
         /\ nodes[nodes[nodes[k].kids[1]].kids[1]].tag = "b"
    ELSE ShowsItem(k, item)
\* the child at index k is a new node, the others are the nodes they were
RebuiltAt(k) ==
    /\ ~lastRender.threw
    /\ Len(KidsNow) = Len(KidsBefore)
    /\ IsNew(KidsNow[k])
    /\ ShowsRendered(KidsNow[k], NewList[k])
    /\ \A i \in 1..Len(KidsBefore) : i # k => KidsNow[i] = KidsBefore[i]

\* C33: structural mismatch in a list: when the item at index k is replaced
\* by an item of another descriptor, the child at index k alone is rebuilt:
\* the others keep their identity, the number of children is unchanged, and
\* the call does not throw.
StructuralMismatch ==
    \A k \in 1..MaxList : Mismatch(k) => RebuiltAt(k)

\* the same for the new items whose template is one element without white
\* space around it
StructuralMismatchOneNode ==
    \A k \in 1..MaxList :
        Mismatch(k) /\ ~Site(NewList[k].s).pad => RebuiltAt(k)

\* an item was replaced by one of another template
MismatchWitness ==
    \E k \in 1..MaxList :
        /\ Mismatch(k)
        /\ OldList[k].t = "TemplateResult"
        /\ ~Site(NewList[k].s).pad
        /\ RebuiltAt(k)


\* ------------------------------------------- properties of the bulk path
\* the tree under a node of the state st: tags and texts, node identities
\* left out
RECURSIVE Shape(_, _)
Shape(ns, n) ==
    [tag |-> ns[n].tag, text |-> ns[n].text,
     kids |-> [i \in 1..Len(ns[n].kids) |-> Shape(ns, ns[n].kids[i])]]
\* the last step reconciled a list over the rendered list on the bulk path
BulkStep ==
    /\ ListOverList
    /\ PartNow.commits = PartBefore.commits + 1
    /\ ListPath(NewList, OldList) = "bulk"
\* what the per-index algorithm makes of the same new list in the state the
\* step started from
PerIndex ==
    updateArrayPerIndex([Page EXCEPT !.nodes = lastRender.pre.nodes,
                                     !.instances = lastRender.pre.instances,
                                     !.templateCache = lastRender.pre.templateCache],
                        InstBefore, Given)
SameAsPerIndex ==
    /\ Shape(nodes, PartNow.node) = Shape(PerIndex.nodes, PartBefore.node)
    /\ PartNow.cached = PerIndex.instances[InstBefore].part.cached
    /\ PartNow.source = PerIndex.instances[InstBefore].part.source

\* C35: bulk path equivalence: a homogeneous list of simple-wrapper items
\* with one value each, reconciled on the bulk path, leaves under the slot's
\* node the children the per-index algorithm would leave for the same old
\* and new lists, equal in number, order and content, and the same list
\* snapshot.
BulkEquivalence == BulkStep => SameAsPerIndex

\* the same for the lists whose item values are texts without markup
BulkEquivalenceForText ==
    /\ BulkStep
    /\ \A i \in 1..Len(NewList) : ~isHTMLString(NewList[i].vs[1])
    => SameAsPerIndex

\* a list of texts without markup was reconciled on the bulk path over a
\* rendered list that was not empty
BulkTextWitness ==
    /\ BulkStep
    /\ OldList # <<>>
    /\ \A i \in 1..Len(NewList) : ~isHTMLString(NewList[i].vs[1])
    /\ SameAsPerIndex


============================================================================
